---- MODULE Spec2Model ----
(***************************************************************************)
(* A model of the subtitle core of Music_news_airi                         *)
(* (src/src/subtitle_generator.py): the segmenter _split_lyrics, the       *)
(* timing allocator _assign_timings, the timestamp formatter _format_time  *)
(* and the sequential emitter _write_srt, as called by generate_srt.       *)
(*                                                                         *)
(* Text is a sequence of one-character strings.  Times are Python floats,  *)
(* i.e. IEEE-754 binary64 numbers; they are modelled bit-exactly, with      *)
(* round-to-nearest-even after every operation, because several            *)
(* properties of the allocator and of the formatter are decided by that    *)
(* rounding.  TLC's integers are 32 bits wide, so a 53-bit significand is   *)
(* kept as a little-endian sequence of 15-bit limbs.                       *)
(***************************************************************************)
EXTENDS Integers, Sequences, FiniteSets, TLC

(***************************************************************************)
(* Natural numbers of any size: little-endian sequences of limbs in        *)
(* 0..LimbBase-1 with no leading (most significant) zero limb; 0 is << >>. *)
(***************************************************************************)
\* The product of two limbs plus a carry must stay below TLC's 2^31.
LimbBits == (31 - 1) \div 2
LimbBase == 2^LimbBits

(***************************************************************************)
(* Every operator of the arithmetic is a case of the one recursive         *)
(* operator Calc, and is used through the definition of its name that      *)
(* follows.  (TLC's coverage statistics copy the body of an operator at    *)
(* each place it is used, except where it is used inside itself; as        *)
(* separate operators, these would be copied a number of times that grows  *)
(* exponentially with the depth of their use.)                             *)
(***************************************************************************)
RECURSIVE Calc(_, _)

\* a without its leading zero limbs
BNorm(a) == Calc("BNorm", <<a>>)
\* the limbs of an integer n >= 0
BFromInt(n) == Calc("BFromInt", <<n>>)
\* the integer a, which must fit TLC's 31 bits
BToInt(a) == Calc("BToInt", <<a>>)
\* limb i of a, 0 beyond its length
BLimb(a, i) == Calc("BLimb", <<a, i>>)
BAddC(a, b, i, c) == Calc("BAddC", <<a, b, i, c>>)
\* a + b
BAdd(a, b) == Calc("BAdd", <<a, b>>)
BSubC(a, b, i, c) == Calc("BSubC", <<a, b, i, c>>)
\* a - b for a >= b
BSub(a, b) == Calc("BSub", <<a, b>>)
BCmpFrom(a, b, i) == Calc("BCmpFrom", <<a, b, i>>)
\* -1, 0, 1 as a < b, a = b, a > b
BCmp(a, b) == Calc("BCmp", <<a, b>>)
BMulSmallC(a, d, i, c) == Calc("BMulSmallC", <<a, d, i, c>>)
\* a * d for a limb-sized d
BMulSmall(a, d) == Calc("BMulSmall", <<a, d>>)
\* a * LimbBase^q
BShiftLimbs(a, q) == Calc("BShiftLimbs", <<a, q>>)
BMulFrom(a, b, j) == Calc("BMulFrom", <<a, b, j>>)
\* a * b
BMul(a, b) == Calc("BMul", <<a, b>>)
\* a * 2^k
BShl(a, k) == Calc("BShl", <<a, k>>)
\* floor(a / 2^k)
BShr(a, k) == Calc("BShr", <<a, k>>)
\* the number of bits of a
BBitLen(a) == Calc("BBitLen", <<a>>)
\* a is odd
BIsOdd(a) == Calc("BIsOdd", <<a>>)
BFitDigit(r, b, q) == Calc("BFitDigit", <<r, b, q>>)
BQuotDigit(r, b) == Calc("BQuotDigit", <<r, b>>)
BDivStep(a, b, i, qs, r) == Calc("BDivStep", <<a, b, i, qs, r>>)
\* <<a div b, a mod b>> for b > 0
BDivMod(a, b) == Calc("BDivMod", <<a, b>>)

(***************************************************************************)
(* Python floats: IEEE-754 binary64, here the non-negative ones (no        *)
(* negative time is ever drawn, and the exponent range is never            *)
(* approached).  A float is 0 or m * 2^e with 2^52 <= m < 2^53, which is   *)
(* unique, so equality of floats is equality of records.  Every operation  *)
(* computes the exact result and rounds it to nearest, ties to even.       *)
(* float('inf') is written as 2^1024, the least magnitude that is not a    *)
(* finite float, so that it compares above every finite float; a sum, a    *)
(* product with a positive float and a quotient by a positive finite float *)
(* of it are again float('inf').                                           *)
(***************************************************************************)
MantissaBits == 53

FZero == [m |-> <<>>, e |-> 0]

FInf == [m |-> <<0, 0, 0, 2^7>>, e |-> 2^10 - 52]

\* the float nearest to n * 2^e, ties to even
FRound(n, e) == Calc("FRound", <<n, e>>)
\* float(n) for an int n >= 0
FFromInt(n) == Calc("FFromInt", <<n>>)
\* a = 0.0
FIsZero(a) == Calc("FIsZero", <<a>>)
\* -1, 0, 1 as a < b, a = b, a > b
FCmp(a, b) == Calc("FCmp", <<a, b>>)
\* a < b
FLt(a, b) == Calc("FLt", <<a, b>>)
\* a <= b
FLe(a, b) == Calc("FLe", <<a, b>>)
\* a + b
FAdd(a, b) == IF a = FInf \/ b = FInf THEN FInf ELSE Calc("FAdd", <<a, b>>)
\* a - b for a >= b
FSub(a, b) == Calc("FSub", <<a, b>>)
\* a * b, for a, b > 0 when one is float('inf')
FMul(a, b) == IF a = FInf \/ b = FInf THEN FInf ELSE Calc("FMul", <<a, b>>)
\* a / b for b > 0 and finite
FDiv(a, b) == IF a = FInf THEN FInf ELSE Calc("FDiv", <<a, b>>)
\* max(a, b), Python's builtin: b only when it is greater than a
FMax(a, b) == Calc("FMax", <<a, b>>)
\* math.fmod(a, b) for b > 0: exact, never rounded
FFmod(a, b) == Calc("FFmod", <<a, b>>)
\* floor(a), as a float
FFloor(a) == Calc("FFloor", <<a>>)
\* a % b for a >= 0, b > 0 (CPython float_rem: fmod, whose sign agrees with b here)
FMod(a, b) == Calc("FMod", <<a, b>>)
\* a // b for a >= 0, b > 0 (CPython _float_div_mod)
FFloorDiv(a, b) == Calc("FFloorDiv", <<a, b>>)
\* int(a): the integer part, as an integer (it must fit TLC's 31 bits)
FToInt(a) == Calc("FToInt", <<a>>)

(***************************************************************************)
(* The definitions.  Division is long division in base LimbBase (Knuth's   *)
(* algorithm D): the divisor is scaled so that its top limb is at least    *)
(* LimbBase/2, each quotient limb is estimated from the top limbs of the   *)
(* running remainder (BQuotDigit) and lowered until it fits (BFitDigit);   *)
(* BDivStep returns <<quotient limbs, least significant first, remainder>>.*)
(* FAdd: beyond 55 places the smaller term is below a quarter of the       *)
(* larger one's last place.  FSub: likewise, the exact difference is cut   *)
(* to a sticky bit below the guard bits.  FDiv: 57 quotient bits and a     *)
(* sticky bit for the remainder.                                           *)
(***************************************************************************)
Calc(op, x) ==
    CASE op = "BLimb" ->
        LET a == x[1] i == x[2] IN
        IF i <= Len(a) THEN a[i] ELSE 0
      [] op = "BAddC" ->
        LET a == x[1] b == x[2] i == x[3] c == x[4] IN
        IF i > Len(a) /\ i > Len(b)
        THEN IF c = 0 THEN <<>> ELSE <<c>>
        ELSE LET s == BLimb(a, i) + BLimb(b, i) + c
             IN  <<s % LimbBase>> \o BAddC(a, b, i + 1, s \div LimbBase)
      [] op = "BSubC" ->
        LET a == x[1] b == x[2] i == x[3] c == x[4] IN
        IF i > Len(a) THEN <<>>
        ELSE LET s == a[i] - BLimb(b, i) - c
             IN  IF s < 0 THEN <<s + LimbBase>> \o BSubC(a, b, i + 1, 1)
                 ELSE <<s>> \o BSubC(a, b, i + 1, 0)
      [] op = "BCmpFrom" ->
        LET a == x[1] b == x[2] i == x[3] IN
        IF i = 0 THEN 0
        ELSE IF a[i] < b[i] THEN -1
        ELSE IF a[i] > b[i] THEN 1
        ELSE BCmpFrom(a, b, i - 1)
      [] op = "BMulSmallC" ->
        LET a == x[1] d == x[2] i == x[3] c == x[4] IN
        IF i > Len(a)
        THEN IF c = 0 THEN <<>> ELSE <<c>>
        ELSE LET s == a[i] * d + c
             IN  <<s % LimbBase>> \o BMulSmallC(a, d, i + 1, s \div LimbBase)
      [] op = "BNorm" ->
        LET a == x[1] IN
        IF a = <<>> THEN a
        ELSE IF a[Len(a)] = 0 THEN BNorm(SubSeq(a, 1, Len(a) - 1))
        ELSE a
      [] op = "BCmp" ->
        LET a == x[1] b == x[2] IN
        IF Len(a) < Len(b) THEN -1
        ELSE IF Len(a) > Len(b) THEN 1
        ELSE BCmpFrom(a, b, Len(a))
      [] op = "BMulSmall" ->
        LET a == x[1] d == x[2] IN
        IF d = 0 THEN <<>> ELSE BMulSmallC(a, d, 1, 0)
      [] op = "BAdd" ->
        LET a == x[1] b == x[2] IN
        BAddC(a, b, 1, 0)
      [] op = "BSub" ->
        LET a == x[1] b == x[2] IN
        BNorm(BSubC(a, b, 1, 0))
      [] op = "BShiftLimbs" ->
        LET a == x[1] q == x[2] IN
        IF a = <<>> THEN a ELSE [i \in 1..q |-> 0] \o a
      [] op = "BShl" ->
        LET a == x[1] k == x[2] IN
        BShiftLimbs(BMulSmall(a, 2^(k % LimbBits)), k \div LimbBits)
      [] op = "BShr" ->
        LET a == x[1] k == x[2] IN
        LET q == k \div LimbBits
            r == k % LimbBits
            d == IF q >= Len(a) THEN <<>> ELSE SubSeq(a, q + 1, Len(a))
        IN  BNorm([i \in 1..Len(d) |->
                      (d[i] \div 2^r) + (BLimb(d, i + 1) % 2^r) * 2^(LimbBits - r)])
      [] op = "BBitLen" ->
        LET a == x[1] IN
        IF a = <<>> THEN 0
        ELSE LimbBits * (Len(a) - 1)
             + (CHOOSE k \in 1..LimbBits : 2^(k - 1) <= a[Len(a)] /\ a[Len(a)] < 2^k)
      [] op = "BIsOdd" ->
        LET a == x[1] IN
        a # <<>> /\ a[1] % 2 = 1
      [] op = "BFitDigit" ->
        LET r == x[1] b == x[2] q == x[3] IN
        IF BCmp(BMulSmall(b, q), r) > 0 THEN BFitDigit(r, b, q - 1) ELSE q
      [] op = "BQuotDigit" ->
        LET r == x[1] b == x[2] IN
        IF BCmp(r, b) < 0 THEN 0
        ELSE LET n   == Len(b)
                 top == BLimb(r, n + 1) * LimbBase + r[n]
                 est == top \div b[n]
             IN  BFitDigit(r, b, IF est > LimbBase - 1 THEN LimbBase - 1 ELSE est)
      [] op = "BDivStep" ->
        LET a == x[1] b == x[2] i == x[3] qs == x[4] r == x[5] IN
        IF i = 0 THEN <<qs, r>>
        ELSE LET r1 == BNorm(<<a[i]>> \o r)
                 q  == BQuotDigit(r1, b)
             IN  BDivStep(a, b, i - 1, <<q>> \o qs, BSub(r1, BMulSmall(b, q)))
      [] op = "BDivMod" ->
        LET a == x[1] b == x[2] IN
        LET s  == LimbBits - ((BBitLen(b) - 1) % LimbBits) - 1
            res == BDivStep(BShl(a, s), BShl(b, s), Len(BShl(a, s)), <<>>, <<>>)
        IN  <<BNorm(res[1]), BShr(res[2], s)>>
      [] op = "BMulFrom" ->
        LET a == x[1] b == x[2] j == x[3] IN
        IF j > Len(b) THEN <<>>
        ELSE BAdd(BShiftLimbs(BMulSmall(a, b[j]), j - 1), BMulFrom(a, b, j + 1))
      [] op = "BMul" ->
        LET a == x[1] b == x[2] IN
        BMulFrom(a, b, 1)
      [] op = "BFromInt" ->
        LET n == x[1] IN
        IF n = 0 THEN <<>> ELSE <<n % LimbBase>> \o BFromInt(n \div LimbBase)
      [] op = "BToInt" ->
        LET a == x[1] IN
        IF a = <<>> THEN 0 ELSE a[1] + LimbBase * BToInt(Tail(a))
      [] op = "FIsZero" ->
        LET a == x[1] IN
        a.m = <<>>
      [] op = "FCmp" ->
        LET a == x[1] b == x[2] IN
        IF FIsZero(a) THEN (IF FIsZero(b) THEN 0 ELSE -1)
        ELSE IF FIsZero(b) THEN 1
        ELSE IF a.e < b.e THEN -1
        ELSE IF a.e > b.e THEN 1
        ELSE BCmp(a.m, b.m)
      [] op = "FRound" ->
        LET n == x[1] e == x[2] IN
        IF n = <<>> THEN FZero
        ELSE LET bl == BBitLen(n)
             IN  IF bl <= MantissaBits
                 THEN [m |-> BShl(n, MantissaBits - bl), e |-> e - (MantissaBits - bl)]
                 ELSE LET s    == bl - MantissaBits
                          q    == BShr(n, s)
                          c    == BCmp(BSub(n, BShl(q, s)), BShl(<<1>>, s - 1))
                          up   == c > 0 \/ (c = 0 /\ BIsOdd(q))
                          q2   == IF up THEN BAdd(q, <<1>>) ELSE q
                      IN  IF BBitLen(q2) > MantissaBits
                          THEN [m |-> BShr(q2, 1), e |-> e + s + 1]
                          ELSE [m |-> q2, e |-> e + s]
      [] op = "FAdd" ->
        LET a == x[1] b == x[2] IN
        IF FIsZero(a) THEN b
        ELSE IF FIsZero(b) THEN a
        ELSE LET hi == IF a.e >= b.e THEN a ELSE b
                 lo == IF a.e >= b.e THEN b ELSE a
                 d  == hi.e - lo.e
             IN  \* beyond 55 places lo is below a quarter of hi's last place
                 IF d > MantissaBits + 2 THEN hi
                 ELSE FRound(BAdd(BShl(hi.m, d), lo.m), lo.e)
      [] op = "FSub" ->
        LET a == x[1] b == x[2] IN
        IF FIsZero(b) THEN a
        ELSE LET d == a.e - b.e
             IN  IF d > MantissaBits + 2
            THEN FRound(BSub(BShl(a.m, 3), <<1>>), a.e - 3)
                 ELSE FRound(BSub(BShl(a.m, d), b.m), b.e)
      [] op = "FMul" ->
        LET a == x[1] b == x[2] IN
        IF FIsZero(a) \/ FIsZero(b) THEN FZero
        ELSE FRound(BMul(a.m, b.m), a.e + b.e)
      [] op = "FDiv" ->
        LET a == x[1] b == x[2] IN
        IF FIsZero(a) THEN FZero
        ELSE LET qr == BDivMod(BShl(a.m, MantissaBits + 3), b.m)
                 n  == BAdd(BShl(qr[1], 1), IF qr[2] = <<>> THEN <<>> ELSE <<1>>)
             IN  FRound(n, a.e - b.e - (MantissaBits + 3) - 1)
      [] op = "FMax" ->
        LET a == x[1] b == x[2] IN
        IF FCmp(b, a) > 0 THEN b ELSE a
      [] op = "FFmod" ->
        LET a == x[1] b == x[2] IN
        IF FIsZero(a) THEN FZero
        ELSE LET e == IF a.e <= b.e THEN a.e ELSE b.e
             IN  FRound(BDivMod(BShl(a.m, a.e - e), BShl(b.m, b.e - e))[2], e)
      [] op = "FMod" ->
        LET a == x[1] b == x[2] IN
        FFmod(a, b)
      [] op = "FFloor" ->
        LET a == x[1] IN
        IF FIsZero(a) \/ a.e >= 0 THEN a
        ELSE FRound(BShr(a.m, 0 - a.e), 0)
      [] op = "FFloorDiv" ->
        LET a == x[1] b == x[2] IN
        LET div      == FDiv(FSub(a, FFmod(a, b)), b)
            floordiv == FFloor(div)
        IN  IF FCmp(FSub(div, floordiv), FDiv(FFromInt(1), FFromInt(2))) > 0
            THEN FAdd(floordiv, FFromInt(1))
            ELSE floordiv
      [] op = "FFromInt" ->
        LET n == x[1] IN
        FRound(BFromInt(n), 0)
      [] op = "FToInt" ->
        LET a == x[1] IN
        IF FIsZero(a) THEN 0
        ELSE IF a.e >= 0 THEN BToInt(BShl(a.m, a.e))
        ELSE BToInt(BShr(a.m, 0 - a.e))
      [] op = "FLt" ->
        LET a == x[1] b == x[2] IN
        FCmp(a, b) < 0
      [] op = "FLe" ->
        LET a == x[1] b == x[2] IN
        FCmp(a, b) <= 0

\* The float a decimal literal num/den denotes (the nearest one).
FRatio(num, den) == FDiv(FFromInt(num), FFromInt(den))

(***************************************************************************)
(* Text: a str is a sequence of one-character strings.                     *)
(***************************************************************************)
LF == "\n"
CR == "\r"

\* The characters str.strip() removes, among those the inputs are made of.
Whitespace == {" ", "\t", LF, CR, "\f"}

\* The decimal digits of n >= 0, as format(n, "d") writes them.
RECURSIVE Digits(_)
Digits(n) ==
    LET d == <<"0", "1", "2", "3", "4", "5", "6", "7", "8", "9">>[(n % 10) + 1]
    IN  IF n < 10 THEN <<d>> ELSE Digits(n \div 10) \o <<d>>

\* format(n, "0<w>d"): zero-padded to at least w digits, never cut
RECURSIVE ZeroPad(_, _)
ZeroPad(ds, w) == IF Len(ds) >= w THEN ds ELSE ZeroPad(<<"0">> \o ds, w)

\* s.split(sep) for a one-character sep: the pieces from position i on,
\* cur being the piece under way
RECURSIVE SplitFrom(_, _, _, _)
SplitFrom(s, sep, i, cur) ==
    IF i > Len(s) THEN <<cur>>
    ELSE IF s[i] = sep THEN <<cur>> \o SplitFrom(s, sep, i + 1, <<>>)
    ELSE SplitFrom(s, sep, i + 1, Append(cur, s[i]))

StrSplit(s, sep) == SplitFrom(s, sep, 1, <<>>)

RECURSIVE LStrip(_)
LStrip(s) == IF s # <<>> /\ Head(s) \in Whitespace THEN LStrip(Tail(s)) ELSE s

RECURSIVE RStrip(_)
RStrip(s) ==
    IF s # <<>> /\ s[Len(s)] \in Whitespace
    THEN RStrip(SubSeq(s, 1, Len(s) - 1))
    ELSE s

\* A strip that forgets the right-hand side: s.lstrip().
StripLeftOnly(s) == LStrip(s)

\* s.strip()
Strip(s) == RStrip(LStrip(s))

(***************************************************************************)
(* re.match(r'^\[.*\]$', line): an opening bracket first, a closing        *)
(* bracket at position k with no line feed before it ('.' matches all but  *)
(* LF), and k the end of the string or just before a final LF ('$').       *)
(***************************************************************************)
\* The pattern without its end anchor, r'^\[.*\]': a bracketed prefix is enough.
IsBracketedPrefix(line) ==
    /\ Len(line) >= 2
    /\ line[1] = "["
    /\ \E k \in 2..Len(line) :
          /\ line[k] = "]"
          /\ \A j \in 2..(k - 1) : line[j] # LF

IsSectionHeading(line) ==
    /\ Len(line) >= 2
    /\ line[1] = "["
    /\ \E k \in 2..Len(line) :
          /\ line[k] = "]"
          /\ \A j \in 2..(k - 1) : line[j] # LF
          /\ \/ k = Len(line)
             \/ k = Len(line) - 1 /\ line[Len(line)] = LF

MapStrip(ls) == [i \in 1..Len(ls) |-> Strip(ls[i])]
NonEmptyStripped(l) == Strip(l) # <<>>
\* Section headings kept as lines to show.
KeepsSectionHeading(l) == TRUE

NotSectionHeading(l) == ~IsSectionHeading(l)

\* SubtitleGenerator._split_lyrics
SplitLyrics(text) ==
    LET split    == StrSplit(text, LF)
        stripped == MapStrip(SelectSeq(split, NonEmptyStripped))
    IN  SelectSeq(stripped, NotSectionHeading)

(***************************************************************************)
(* SubtitleGenerator._assign_timings, piece by piece.                      *)
(***************************************************************************)
\* line_duration = max(2.0, len(line) / chars_per_second)
\* A line duration without the floor of two seconds.
LineDurationNoFloor(line, cps) == FDiv(FFromInt(Len(line)), cps)

LineDuration(line, cps) == FMax(FFromInt(2), FDiv(FFromInt(Len(line)), cps))

LineDurations(ls, cps) == [i \in 1..Len(ls) |-> LineDuration(ls[i], cps)]

\* sum(xs): from the left, starting from 0.  (CPython 3.12 and later
\* compensate the rounding errors of this sum; the two agree whenever every
\* partial sum is a float, as is the case for the durations drawn here.)
RECURSIVE FSumFrom(_, _, _)
FSumFrom(xs, i, acc) ==
    IF i > Len(xs) THEN acc ELSE FSumFrom(xs, i + 1, FAdd(acc, xs[i]))

FSum(xs) == FSumFrom(xs, 1, FZero)

\* An allocator that does not scale: scale_factor = 1.0 whatever the duration.
ScaleFactorOne(total, d) == FFromInt(1)

\* scale_factor
ScaleFactor(total, d) ==
    IF FCmp(total, FZero) > 0 THEN FDiv(d, total) ELSE FFromInt(1)

\* end_time of the cue that starts at start, clamped to the duration d
EndTime(start, line_duration, scale, d) ==
    LET end_time == FAdd(start, FMul(line_duration, scale))
    IN  IF FCmp(end_time, d) > 0 THEN d ELSE end_time

\* whether the loop ends after a cue that ends at current
LoopBreaks(current, d) == FCmp(current, d) >= 0

(***************************************************************************)
(* SubtitleGenerator._format_time                                          *)
(***************************************************************************)
TimeFields(seconds) ==
    [hours   |-> FToInt(FFloorDiv(seconds, FFromInt(3600))),
     minutes |-> FToInt(FFloorDiv(FMod(seconds, FFromInt(3600)), FFromInt(60))),
     secs    |-> FToInt(FMod(seconds, FFromInt(60))),
     millis  |-> FToInt(FMul(FMod(seconds, FFromInt(1)), FFromInt(1000)))]

\* f"{hours:02d}:{minutes:02d}:{secs:02d},{millis:03d}"
FormatTime(seconds) ==
    LET f == TimeFields(seconds)
    IN  ZeroPad(Digits(f.hours), 2) \o <<":">> \o ZeroPad(Digits(f.minutes), 2)
        \o <<":">> \o ZeroPad(Digits(f.secs), 2) \o <<",">>
        \o ZeroPad(Digits(f.millis), 3)

(***************************************************************************)
(* SubtitleGenerator._format_time_ass                                      *)
(***************************************************************************)
TimeFieldsAss(seconds) ==
    [hours     |-> FToInt(FFloorDiv(seconds, FFromInt(3600))),
     minutes   |-> FToInt(FFloorDiv(FMod(seconds, FFromInt(3600)), FFromInt(60))),
     secs      |-> FToInt(FMod(seconds, FFromInt(60))),
     centisecs |-> FToInt(FMul(FMod(seconds, FFromInt(1)), FFromInt(100)))]

\* f"{hours}:{minutes:02d}:{secs:02d}.{centisecs:02d}"
FormatTimeAss(seconds) ==
    LET f == TimeFieldsAss(seconds)
    IN  Digits(f.hours) \o <<":">> \o ZeroPad(Digits(f.minutes), 2)
        \o <<":">> \o ZeroPad(Digits(f.secs), 2) \o <<".">>
        \o ZeroPad(Digits(f.centisecs), 2)

(***************************************************************************)
(* SubtitleGenerator._write_srt: the four writes of entry number i.        *)
(***************************************************************************)
Arrow == <<" ", "-", "-", ">", " ">>

\* Records numbered as a plain enumerate() would, from 0.
SrtRecordFromZero(i, entry) ==
    Digits(i - 1) \o <<LF>>
    \o FormatTime(entry.start_time) \o Arrow \o FormatTime(entry.end_time) \o <<LF>>
    \o entry.text \o <<LF>>
    \o <<LF>>

SrtRecord(i, entry) ==
    Digits(i) \o <<LF>>
    \o FormatTime(entry.start_time) \o Arrow \o FormatTime(entry.end_time) \o <<LF>>
    \o entry.text \o <<LF>>
    \o <<LF>>

(***************************************************************************)
(* SubtitleGenerator._write_ass: what it writes, write by write.           *)
(***************************************************************************)
\* [Script Info]\n
ScriptInfoHeader ==
    <<"[", "S", "c", "r", "i", "p", "t", " ", "I", "n", "f", "o", "]", LF>>

\* Title: Music News AI Subtitles\n
TitleLine ==
    <<"T", "i", "t", "l", "e", ":", " ", "M", "u", "s", "i", "c", " ", "N",
      "e", "w", "s", " ", "A", "I", " ", "S", "u", "b", "t", "i", "t", "l",
      "e", "s", LF>>

\* ScriptType: v4.00+\n
ScriptTypeLine ==
    <<"S", "c", "r", "i", "p", "t", "T", "y", "p", "e", ":", " ", "v", "4",
      ".", "0", "0", "+", LF>>

\* Collisions: Normal\n
CollisionsLine ==
    <<"C", "o", "l", "l", "i", "s", "i", "o", "n", "s", ":", " ", "N", "o",
      "r", "m", "a", "l", LF>>

\* PlayDepth: 0\n
PlayDepthLine ==
    <<"P", "l", "a", "y", "D", "e", "p", "t", "h", ":", " ", "0", LF>>

\* Timer: 100.0000\n
TimerLine ==
    <<"T", "i", "m", "e", "r", ":", " ", "1", "0", "0", ".", "0", "0", "0",
      "0", LF>>

\* WrapStyle: 0\n
WrapStyleLine ==
    <<"W", "r", "a", "p", "S", "t", "y", "l", "e", ":", " ", "0", LF>>

\* [V4+ Styles]\n
StylesHeader ==
    <<"[", "V", "4", "+", " ", "S", "t", "y", "l", "e", "s", "]", LF>>

\* Format: Name, Fontname, ..., Encoding\n
StylesFormatLine ==
    <<"F", "o", "r", "m", "a", "t", ":", " ", "N", "a", "m", "e", ",", " ",
      "F", "o", "n", "t", "n", "a", "m", "e", ",", " ", "F", "o", "n", "t",
      "s", "i", "z", "e", ",", " ", "P", "r", "i", "m", "a", "r", "y", "C",
      "o", "l", "o", "u", "r", ",", " ", "S", "e", "c", "o", "n", "d", "a",
      "r", "y", "C", "o", "l", "o", "u", "r", ",", " ", "O", "u", "t", "l",
      "i", "n", "e", "C", "o", "l", "o", "u", "r", ",", " ", "B", "a", "c",
      "k", "C", "o", "l", "o", "u", "r", ",", " ", "B", "o", "l", "d", ",",
      " ", "I", "t", "a", "l", "i", "c", ",", " ", "U", "n", "d", "e", "r",
      "l", "i", "n", "e", ",", " ", "S", "t", "r", "i", "k", "e", "O", "u",
      "t", ",", " ", "S", "c", "a", "l", "e", "X", ",", " ", "S", "c", "a",
      "l", "e", "Y", ",", " ", "S", "p", "a", "c", "i", "n", "g", ",", " ",
      "A", "n", "g", "l", "e", ",", " ", "B", "o", "r", "d", "e", "r", "S",
      "t", "y", "l", "e", ",", " ", "O", "u", "t", "l", "i", "n", "e", ",",
      " ", "S", "h", "a", "d", "o", "w", ",", " ", "A", "l", "i", "g", "n",
      "m", "e", "n", "t", ",", " ", "M", "a", "r", "g", "i", "n", "L", ",",
      " ", "M", "a", "r", "g", "i", "n", "R", ",", " ", "M", "a", "r", "g",
      "i", "n", "V", ",", " ", "E", "n", "c", "o", "d", "i", "n", "g", LF>>

\* Style: Default,
StylePrefix ==
    <<"S", "t", "y", "l", "e", ":", " ", "D", "e", "f", "a", "u", "l", "t",
      ",">>

\* ,0,0,0,100,100,0,0,1,  (italic, underline, strikeout, scales, spacing, angle, border style)
StyleFixedFlags ==
    <<",", "0", ",", "0", ",", "0", ",", "1", "0", "0", ",", "1", "0", "0",
      ",", "0", ",", "0", ",", "1", ",">>

\* ,20,20,
StyleSideMargins ==
    <<",", "2", "0", ",", "2", "0", ",">>

\* ,1\n
StyleEncoding ==
    <<",", "1", LF>>

\* [Events]\n
EventsHeader ==
    <<"[", "E", "v", "e", "n", "t", "s", "]", LF>>

\* Format: Layer, Start, ..., Text\n
EventsFormatLine ==
    <<"F", "o", "r", "m", "a", "t", ":", " ", "L", "a", "y", "e", "r", ",",
      " ", "S", "t", "a", "r", "t", ",", " ", "E", "n", "d", ",", " ", "S",
      "t", "y", "l", "e", ",", " ", "N", "a", "m", "e", ",", " ", "M", "a",
      "r", "g", "i", "n", "L", ",", " ", "M", "a", "r", "g", "i", "n", "R",
      ",", " ", "M", "a", "r", "g", "i", "n", "V", ",", " ", "E", "f", "f",
      "e", "c", "t", ",", " ", "T", "e", "x", "t", LF>>

\* Dialogue: 0,
DialoguePrefix ==
    <<"D", "i", "a", "l", "o", "g", "u", "e", ":", " ", "0", ",">>

\* ,Default,,0,0,0,,  (style, name, margins, effect)
DialogueFixedFields ==
    <<",", "D", "e", "f", "a", "u", "l", "t", ",", ",", "0", ",", "0", ",",
      "0", ",", ",">>

\* {\fad(
FadeOpen ==
    <<"{", "\\", "f", "a", "d", "(">>

\* )}
FadeClose ==
    <<")", "}">>

\* the writes of a sequence, one after the other
RECURSIVE Concat(_)
Concat(ws) == IF ws = <<>> THEN <<>> ELSE Head(ws) \o Concat(Tail(ws))

\* f"{x}" of a float x that is a whole number of halves: "3.0", "2.5"
FloatRepr(x) ==
    Digits(FToInt(x)) \o <<".">>
    \o (IF FIsZero(FMod(x, FFromInt(1))) THEN <<"0">> ELSE <<"5">>)

\* The bold flag written as 1 and 0.
BoldValFlag(bold) == IF bold THEN <<"1">> ELSE <<"0">>

\* bold_val = -1 if bold else 0, as the f-string writes it
BoldVal(bold) == IF bold THEN <<"-", "1">> ELSE <<"0">>

\* the "Style: Default,..." row
StyleRow(st) ==
    StylePrefix \o st.font_name \o <<",">> \o Digits(st.font_size) \o <<",">>
    \o st.primary_color \o <<",">> \o st.secondary_color \o <<",">>
    \o st.outline_color \o <<",">> \o st.back_color \o <<",">>
    \o BoldVal(st.bold) \o StyleFixedFlags
    \o FloatRepr(st.outline) \o <<",">> \o FloatRepr(st.shadow) \o <<",">>
    \o Digits(st.alignment) \o StyleSideMargins \o Digits(st.margin_v)
    \o StyleEncoding

\* The writes before the loop without the column declaration of the events.
AssHeaderWritesNoEventsFormat(st) ==
    <<ScriptInfoHeader, TitleLine, ScriptTypeLine, CollisionsLine,
      PlayDepthLine, TimerLine, WrapStyleLine, <<LF>>,
      StylesHeader, StylesFormatLine, StyleRow(st), <<LF>>,
      EventsHeader>>

\* everything written before the loop over the entries
AssHeaderWrites(st) ==
    <<ScriptInfoHeader, TitleLine, ScriptTypeLine, CollisionsLine,
      PlayDepthLine, TimerLine, WrapStyleLine, <<LF>>,
      StylesHeader, StylesFormatLine, StyleRow(st), <<LF>>,
      EventsHeader, EventsFormatLine>>

\* Milliseconds rounded to the nearest integer instead of truncated.
FadeMillisRounded(fade) ==
    FToInt(FAdd(FMul(fade, FFromInt(1000)), FRatio(1, 2)))

\* fade_in_ms = int(fade_in * 1000)
FadeMillis(fade) == FToInt(FMul(fade, FFromInt(1000)))

\* effect_text = f"{{\\fad({fade_in_ms},{fade_out_ms})}}{text}"
EffectText(st, text) ==
    FadeOpen \o Digits(FadeMillis(st.fade_in)) \o <<",">>
    \o Digits(FadeMillis(st.fade_out)) \o FadeClose \o text

\* Cue rows that name the style after the font instead of "Default".
DialogueRowFontStyle(st, entry) ==
    DialoguePrefix \o FormatTimeAss(entry.start_time) \o <<",">>
    \o FormatTimeAss(entry.end_time) \o <<",">> \o st.font_name
    \o <<",", ",", "0", ",", "0", ",", "0", ",", ",">>
    \o EffectText(st, entry.text) \o <<LF>>

\* the one write of an entry
DialogueRow(st, entry) ==
    DialoguePrefix \o FormatTimeAss(entry.start_time) \o <<",">>
    \o FormatTimeAss(entry.end_time) \o DialogueFixedFields
    \o EffectText(st, entry.text) \o <<LF>>

(***************************************************************************)
(* Where the code raises.                                                  *)
(***************************************************************************)
\* len(line) / chars_per_second raises ZeroDivisionError for the first line
AssignRaises(ls, cps) == ls # <<>> /\ FIsZero(cps)

\* int(seconds // 3600) raises ValueError: inf // 3600 is nan
TimeRaises(secs) == secs = FInf

EntryRaises(entry) == TimeRaises(entry.start_time) \/ TimeRaises(entry.end_time)

NotoSansCjkJp ==
    <<"N", "o", "t", "o", " ", "S", "a", "n", "s", " ", "C", "J", "K", " ",
      "J", "P">>

NotoSansCjkJpBold ==
    <<"N", "o", "t", "o", " ", "S", "a", "n", "s", " ", "C", "J", "K", " ",
      "J", "P", " ", "B", "o", "l", "d">>

White ==
    <<"&", "H", "0", "0", "F", "F", "F", "F", "F", "F">>

Magenta ==
    <<"&", "H", "0", "0", "F", "F", "0", "0", "F", "F">>

Yellow ==
    <<"&", "H", "0", "0", "0", "0", "F", "F", "F", "F">>

Black ==
    <<"&", "H", "0", "0", "0", "0", "0", "0", "0", "0">>

HalfBlack ==
    <<"&", "H", "8", "0", "0", "0", "0", "0", "0", "0">>

DimBlack ==
    <<"&", "H", "A", "0", "0", "0", "0", "0", "0", "0">>

\* generate_ass's defaults
DefaultStyle ==
    [font_name |-> NotoSansCjkJp, font_size |-> 52,
     primary_color |-> White, secondary_color |-> Magenta,
     outline_color |-> Black, back_color |-> HalfBlack,
     outline |-> FFromInt(3), shadow |-> FFromInt(2), bold |-> TRUE,
     alignment |-> 2, margin_v |-> 40,
     fade_in |-> FRatio(3, 10), fade_out |-> FRatio(3, 10)]

\* the style scripts/test_subtitles.py asks for
RichStyle ==
    [font_name |-> NotoSansCjkJpBold, font_size |-> 56,
     primary_color |-> White, secondary_color |-> Yellow,
     outline_color |-> Black, back_color |-> DimBlack,
     outline |-> FFromInt(4), shadow |-> FRatio(5, 2), bold |-> TRUE,
     alignment |-> 2, margin_v |-> 50,
     fade_in |-> FRatio(4, 10), fade_out |-> FRatio(4, 10)]

(***************************************************************************)
(* The inputs.                                                             *)
(***************************************************************************)
MaxLines == 3
MaxTextLen == 4
MaxMillis == 1200

\* Raw lines lyrics are put together from: a short line, a longer one, a
\* section heading.
RawLinePool == { <<"a">>, <<"a", "b", "c">>, <<"[", "a", "]">> }

RECURSIVE JoinLines(_)
JoinLines(ls) ==
    IF ls = <<>> THEN <<>>
    ELSE IF Len(ls) = 1 THEN ls[1]
    ELSE ls[1] \o <<LF>> \o JoinLines(Tail(ls))

\* "[Intro]\nhello\n\n[Verse 1]\nworld  \n"
IntroVerseLyrics ==
    <<"[", "I", "n", "t", "r", "o", "]", LF, "h", "e", "l", "l", "o", LF, LF,
      "[", "V", "e", "r", "s", "e", " ", "1", "]", LF,
      "w", "o", "r", "l", "d", " ", " ", LF>>

\* ten one-character lines
TenLinesLyrics == JoinLines([i \in 1..10 |-> <<"a">>])

\* "a\rb": one line by the line feeds, two by the carriage return
CarriageReturnLyrics == <<"a", CR, "b">>

LyricsInputs ==
    UNION { {JoinLines(ls) : ls \in [1..n -> RawLinePool]} : n \in 0..MaxLines }
    \cup {IntroVerseLyrics, TenLinesLyrics, CarriageReturnLyrics}

\* duration and chars_per_second, as the literals num/den
DurationInputs == { <<0, 1>>, <<1, 2>>, <<9, 10>>, <<7, 1>> }
CharsPerSecondInputs == { <<1, 1>>, <<15, 1>> }

TextAlphabet == {"a", " ", "[", "]", LF, CR}
TextInputs ==
    UNION { [1..n -> TextAlphabet] : n \in 0..MaxTextLen } \cup {IntroVerseLyrics}

\* times in whole milliseconds: a dense range, and times past 24 h and 99 h
MillisInputs ==
    0..MaxMillis \cup {2300, 5500, 86400500, 360000000, 360005100}

(***************************************************************************)
(* The state.                                                              *)
(***************************************************************************)
VARIABLES
    pc,                          \* where the call under way stands
    lyrics,                      \* generate_srt's and _split_lyrics' argument
    duration,                    \* the duration argument, a float
    chars_per_second,            \* the chars_per_second argument, a float
    lines,                       \* what _split_lyrics returned
    line_durations,              \* _assign_timings' locals
    total_calculated_duration,
    scale_factor,
    current_time,
    idx,                         \* the line the loop of _assign_timings is at
    subtitle_entries,            \* the cues, records of start_time, end_time, text
    file,                        \* the content of the file at output_path
    widx,                        \* the entry the loop of _write_srt is at
    t_ms,                        \* _format_time's argument in milliseconds
    seconds,                     \* _format_time's argument, the float t_ms/1000
    stamp,                       \* what _format_time returned
    format,                      \* "srt" for generate_srt, "ass" for generate_ass
    style,                       \* generate_ass's style and effect arguments
    error,                       \* the exception that reached the caller, "" if none
    runs,                        \* the calls made on output_path so far
    buffer,                      \* what f.write took and the file has not got yet
    handle,                      \* "none", "open" or "closed": the file object f
    fs,                          \* the files by path, when two calls are under way
    calls,                       \* the two calls under way, their arguments and locals
    media,                       \* the audio and image files and what ffprobe makes of the audio
    max_duration,                \* generate_shorts' max_duration argument
    num_parts,                   \* generate_shorts' locals
    part,
    commands,                    \* the ffmpeg runs so far: their -ss and -t and their output
    generated_videos,
    result,                      \* what the call returned, <<>> while it has not
    base_dir,                    \* SessionManager.base_dir: what each name in it is
    before,                      \* base_dir as the last call found it
    call,                        \* the last call of SessionManager and its arguments
    session,                     \* the script's local session
    writes,                      \* the update_session calls of the script so far
    client,                      \* the SunoAIClient: api_key, dev_mode
    requests                     \* the HTTP requests sent so far

vars == <<pc, lyrics, duration, chars_per_second, lines, line_durations,
          total_calculated_duration, scale_factor, current_time, idx,
          subtitle_entries, file, widx, t_ms, seconds, stamp,
          format, style, error, runs, buffer, handle, fs, calls,
          media, max_duration, num_parts, part, commands, generated_videos,
          result, base_dir, before, call, session, writes, client, requests>>

allocVars == <<line_durations, total_calculated_duration, scale_factor,
               current_time, idx, subtitle_entries>>
inputVars == <<lyrics, duration, chars_per_second>>
formatVars == <<t_ms, seconds, stamp>>
genVars == <<format, style, error, runs>>
ioVars == <<buffer, handle>>
callVars == <<fs, calls>>
videoVars == <<media, max_duration, num_parts, part, commands,
               generated_videos, result>>
sessionVars == <<base_dir, before, call, session, writes>>
clientVars == <<client, requests>>
pipelineVars == <<videoVars, sessionVars, clientVars>>

\* one call, and its writes taken as reaching the file at once
NoIo == buffer = <<>> /\ handle = "none" /\ fs = <<>> /\ calls = <<>>

\* no call of VideoGenerator
NoVideo ==
    /\ media = <<>> /\ max_duration = 0 /\ num_parts = 0 /\ part = 0
    /\ commands = <<>> /\ generated_videos = <<>> /\ result = <<>>

\* no SessionManager
NoSessions ==
    /\ base_dir = <<>> /\ before = <<>> /\ call = <<>> /\ session = <<>>
    /\ writes = <<>>

\* no SunoAIClient
NoClient == client = <<>> /\ requests = <<>>

\* the subtitle generator on its own
NoPipeline == NoVideo /\ NoSessions /\ NoClient

NoCall ==
    /\ lines = <<>>
    /\ line_durations = <<>>
    /\ total_calculated_duration = FZero
    /\ scale_factor = FZero
    /\ current_time = FZero
    /\ idx = 0
    /\ subtitle_entries = <<>>
    /\ file = <<>>
    /\ widx = 0

\* one call of generate_srt, nothing raised
SrtCall ==
    /\ format = "srt"
    /\ style = DefaultStyle
    /\ error = ""
    /\ runs = 1
    /\ NoIo
    /\ NoPipeline

\* A call of generate_srt(lyrics, output_path, duration, chars_per_second).
Init ==
    /\ pc = "split"
    /\ lyrics \in LyricsInputs
    /\ duration \in {FRatio(d[1], d[2]) : d \in DurationInputs}
    /\ chars_per_second \in {FRatio(c[1], c[2]) : c \in CharsPerSecondInputs}
    /\ NoCall
    /\ SrtCall
    /\ t_ms = 0 /\ seconds = FZero /\ stamp = <<>>

\* generate_srt: lines = self._split_lyrics(lyrics)
Split ==
    /\ pc = "split"
    /\ lines' = SplitLyrics(lyrics)
    /\ pc' = "assign"
    /\ UNCHANGED <<inputVars, allocVars, file, widx, formatVars, genVars,
                   ioVars, callVars, pipelineVars>>

\* _assign_timings: if not lines: return []
AssignEmpty ==
    /\ pc = "assign"
    /\ lines = <<>>
    /\ subtitle_entries' = <<>>
    /\ pc' = "write"
    /\ UNCHANGED <<inputVars, lines, line_durations, total_calculated_duration,
                   scale_factor, current_time, idx, file, widx, formatVars, genVars,
                   ioVars, callVars, pipelineVars>>

\* _assign_timings up to its second loop
AssignBegin ==
    /\ pc = "assign"
    /\ lines # <<>>
    /\ subtitle_entries' = <<>>
    /\ line_durations' = LineDurations(lines, chars_per_second)
    /\ total_calculated_duration' = FSum(line_durations')
    /\ scale_factor' = ScaleFactor(total_calculated_duration', duration)
    /\ current_time' = FZero
    /\ idx' = 1
    /\ pc' = "loop"
    /\ UNCHANGED <<inputVars, lines, file, widx, formatVars, genVars,
                   ioVars, callVars, pipelineVars>>

\* A loop that hands out the texts from the last line backwards.
AssignLoopBackwards ==
    /\ pc = "loop"
    /\ LET end_time == EndTime(current_time, line_durations[idx], scale_factor,
                               duration)
       IN  /\ subtitle_entries' =
                  Append(subtitle_entries,
                         [start_time |-> current_time, end_time |-> end_time,
                          text |-> lines[Len(lines) + 1 - idx]])
           /\ current_time' = end_time
           /\ IF LoopBreaks(end_time, duration) \/ idx = Len(lines)
              THEN pc' = "write" /\ idx' = idx
              ELSE pc' = "loop" /\ idx' = idx + 1
    /\ UNCHANGED <<inputVars, lines, line_durations, total_calculated_duration,
                   scale_factor, file, widx, formatVars, genVars,
                   ioVars, callVars, pipelineVars>>

\* one turn of the loop over zip(lines, line_durations)
AssignLoop ==
    /\ pc = "loop"
    /\ LET end_time == EndTime(current_time, line_durations[idx], scale_factor,
                               duration)
       IN  /\ subtitle_entries' =
                  Append(subtitle_entries,
                         [start_time |-> current_time, end_time |-> end_time,
                          text |-> lines[idx]])
           /\ current_time' = end_time
           /\ IF LoopBreaks(end_time, duration) \/ idx = Len(lines)
              THEN pc' = "write" /\ idx' = idx
              ELSE pc' = "loop" /\ idx' = idx + 1
    /\ UNCHANGED <<inputVars, lines, line_durations, total_calculated_duration,
                   scale_factor, file, widx, formatVars, genVars,
                   ioVars, callVars, pipelineVars>>

\* The file opened for appending: what it holds stays.
WriteOpenAppend ==
    /\ pc = "write"
    /\ file' = file
    /\ widx' = 1
    /\ pc' = "emit"
    /\ UNCHANGED <<inputVars, lines, allocVars, formatVars, genVars,
                   ioVars, callVars, pipelineVars>>

\* _write_srt: open(output_path, 'w') empties the file
WriteOpen ==
    /\ pc = "write"
    /\ file' = <<>>
    /\ widx' = 1
    /\ pc' = "emit"
    /\ UNCHANGED <<inputVars, lines, allocVars, formatVars, genVars,
                   ioVars, callVars, pipelineVars>>

\* _write_srt: the four writes of one entry
WriteEntry ==
    /\ pc = "emit"
    /\ widx <= Len(subtitle_entries)
    /\ file' = file \o SrtRecord(widx, subtitle_entries[widx])
    /\ widx' = widx + 1
    /\ UNCHANGED <<pc, inputVars, lines, allocVars, formatVars, genVars,
                   ioVars, callVars, pipelineVars>>

\* _write_srt: the loop is over and the file is closed
WriteClose ==
    /\ pc = "emit"
    /\ widx > Len(subtitle_entries)
    /\ pc' = "done"
    /\ UNCHANGED <<inputVars, lines, allocVars, file, widx, formatVars, genVars,
                   ioVars, callVars, pipelineVars>>

Next ==
    \/ Split
    \/ AssignEmpty
    \/ AssignBegin
    \/ AssignLoop
    \/ WriteOpen
    \/ WriteEntry
    \/ WriteClose

Spec == Init /\ [][Next]_vars

(***************************************************************************)
(* _split_lyrics alone, on every text over TextAlphabet.                   *)
(***************************************************************************)
SegInit ==
    /\ pc = "call_split"
    /\ lyrics \in TextInputs
    /\ duration = FZero
    /\ chars_per_second = FFromInt(15)
    /\ NoCall
    /\ SrtCall
    /\ t_ms = 0 /\ seconds = FZero /\ stamp = <<>>

SplitCall ==
    /\ pc = "call_split"
    /\ lines' = SplitLyrics(lyrics)
    /\ pc' = "returned"
    /\ UNCHANGED <<inputVars, allocVars, file, widx, formatVars, genVars,
                   ioVars, callVars, pipelineVars>>

SegNext == SplitCall

SegSpec == SegInit /\ [][SegNext]_vars

(***************************************************************************)
(* _format_time alone, on times given in whole milliseconds.               *)
(***************************************************************************)
FormatInit ==
    /\ pc = "call_format"
    /\ t_ms \in MillisInputs
    /\ seconds = FRatio(t_ms, 1000)
    /\ stamp = <<>>
    /\ lyrics = <<>>
    /\ duration = FZero
    /\ chars_per_second = FFromInt(15)
    /\ NoCall
    /\ SrtCall

FormatCall ==
    /\ pc = "call_format"
    /\ stamp' = FormatTime(seconds)
    /\ pc' = "returned"
    /\ UNCHANGED <<inputVars, lines, allocVars, file, widx, t_ms, seconds, genVars,
                   ioVars, callVars, pipelineVars>>

\* a call of _format_time_ass(seconds)
FormatAssCall ==
    /\ pc = "call_format"
    /\ stamp' = FormatTimeAss(seconds)
    /\ pc' = "returned_ass"
    /\ UNCHANGED <<inputVars, lines, allocVars, file, widx, t_ms, seconds, genVars,
                   ioVars, callVars, pipelineVars>>

FormatNext ==
    \/ FormatCall
    \/ FormatAssCall

FormatSpec == FormatInit /\ [][FormatNext]_vars

(***************************************************************************)
(* generate_srt and generate_ass, called up to MaxRuns times on the same   *)
(* output_path with the same arguments, on a path that may hold an older   *)
(* document; the arguments include those the code raises on.               *)
(***************************************************************************)
MaxRuns == 2

\* "  \n[a]\n": a blank line and a section heading, no line to show
BlankAndHeadingLyrics == <<" ", " ", LF, "[", "a", "]", LF>>

\* "abc\na"
TwoLinesLyrics == <<"a", "b", "c", LF, "a">>

GenLyricsInputs ==
    {<<>>, BlankAndHeadingLyrics, TwoLinesLyrics, CarriageReturnLyrics,
     IntroVerseLyrics}

\* the three cues of P5
ThreeCues ==
    <<[start_time |-> FZero, end_time |-> FFromInt(2), text |-> <<"a">>],
      [start_time |-> FFromInt(2), end_time |-> FRatio(11, 2), text |-> <<"b">>],
      [start_time |-> FRatio(11, 2), end_time |-> FFromInt(10), text |-> <<"c">>]>>

\* what the path may hold before the first call: nothing, or three records
PriorFiles ==
    {<<>>,
     SrtRecord(1, ThreeCues[1]) \o SrtRecord(2, ThreeCues[2])
     \o SrtRecord(3, ThreeCues[3])}

GenDurationInputs == {FZero, FFromInt(7), FInf}
GenCharsPerSecondInputs == {FZero, FFromInt(15)}

StyleInputs ==
    {DefaultStyle, RichStyle,
     [DefaultStyle EXCEPT !.bold = FALSE, !.fade_out = FRatio(3, 2000)]}

GenInit ==
    /\ pc = "split"
    /\ lyrics \in GenLyricsInputs
    /\ duration \in GenDurationInputs
    /\ chars_per_second \in GenCharsPerSecondInputs
    /\ format \in {"srt", "ass"}
    /\ style \in IF format = "ass" THEN StyleInputs ELSE {DefaultStyle}
    /\ file \in PriorFiles
    /\ error = ""
    /\ runs = 1
    /\ NoIo
    /\ NoPipeline
    /\ lines = <<>>
    /\ line_durations = <<>>
    /\ total_calculated_duration = FZero
    /\ scale_factor = FZero
    /\ current_time = FZero
    /\ idx = 0
    /\ subtitle_entries = <<>>
    /\ widx = 0
    /\ t_ms = 0 /\ seconds = FZero /\ stamp = <<>>

\* _assign_timings, line 108: the division raises
AssignRaise ==
    /\ pc = "assign"
    /\ AssignRaises(lines, chars_per_second)
    /\ error' = "ZeroDivisionError"
    /\ pc' = "raised"
    /\ UNCHANGED <<inputVars, lines, allocVars, file, widx, formatVars,
                   format, style, runs, ioVars, callVars, pipelineVars>>

\* _assign_timings up to its second loop, when nothing raises
AssignBeginSafely ==
    /\ ~AssignRaises(lines, chars_per_second)
    /\ AssignBegin

\* generate_srt: self._write_srt(subtitle_entries, output_path)
SrtWriteOpen ==
    /\ format = "srt"
    /\ WriteOpen

\* _write_srt: an entry whose times can be formatted
WriteEntrySafely ==
    /\ pc = "emit"
    /\ widx <= Len(subtitle_entries)
    /\ ~EntryRaises(subtitle_entries[widx])
    /\ WriteEntry

\* _write_srt: f.write(f"{i}\n") is done, then _format_time raises; the
\* with statement closes the file and the exception goes up to the caller
WriteEntryRaise ==
    /\ pc = "emit"
    /\ widx <= Len(subtitle_entries)
    /\ EntryRaises(subtitle_entries[widx])
    /\ file' = file \o Digits(widx) \o <<LF>>
    /\ error' = "ValueError"
    /\ pc' = "raised"
    /\ UNCHANGED <<inputVars, lines, allocVars, widx, formatVars,
                   format, style, runs, ioVars, callVars, pipelineVars>>

\* generate_ass: self._write_ass(...); open(output_path, 'w') empties the file
AssWriteOpen ==
    /\ pc = "write"
    /\ format = "ass"
    /\ file' = <<>>
    /\ widx' = 1
    /\ pc' = "emit_ass_header"
    /\ UNCHANGED <<inputVars, lines, allocVars, formatVars, genVars,
                   ioVars, callVars, pipelineVars>>

\* _write_ass: the writes before the loop
AssWriteHeader ==
    /\ pc = "emit_ass_header"
    /\ file' = file \o Concat(AssHeaderWrites(style))
    /\ pc' = "emit_ass"
    /\ UNCHANGED <<inputVars, lines, allocVars, widx, formatVars, genVars,
                   ioVars, callVars, pipelineVars>>

\* _write_ass: the write of one entry
AssWriteEntry ==
    /\ pc = "emit_ass"
    /\ widx <= Len(subtitle_entries)
    /\ ~EntryRaises(subtitle_entries[widx])
    /\ file' = file \o DialogueRow(style, subtitle_entries[widx])
    /\ widx' = widx + 1
    /\ UNCHANGED <<pc, inputVars, lines, allocVars, formatVars, genVars,
                   ioVars, callVars, pipelineVars>>

\* _write_ass: _format_time_ass raises before the entry is written
AssWriteEntryRaise ==
    /\ pc = "emit_ass"
    /\ widx <= Len(subtitle_entries)
    /\ EntryRaises(subtitle_entries[widx])
    /\ error' = "ValueError"
    /\ pc' = "raised"
    /\ UNCHANGED <<inputVars, lines, allocVars, file, widx, formatVars,
                   format, style, runs, ioVars, callVars, pipelineVars>>

\* _write_ass: the loop is over and the file is closed
AssWriteClose ==
    /\ pc = "emit_ass"
    /\ widx > Len(subtitle_entries)
    /\ pc' = "done"
    /\ UNCHANGED <<inputVars, lines, allocVars, file, widx, formatVars, genVars,
                   ioVars, callVars, pipelineVars>>

\* the same call once more, on the file the call before left
CallAgain ==
    /\ pc = "done"
    /\ runs < MaxRuns
    /\ runs' = runs + 1
    /\ pc' = "split"
    /\ lines' = <<>>
    /\ line_durations' = <<>>
    /\ total_calculated_duration' = FZero
    /\ scale_factor' = FZero
    /\ current_time' = FZero
    /\ idx' = 0
    /\ subtitle_entries' = <<>>
    /\ widx' = 0
    /\ UNCHANGED <<inputVars, file, formatVars, format, style, error,
                   ioVars, callVars, pipelineVars>>

GenNext ==
    \/ Split
    \/ AssignEmpty
    \/ AssignRaise
    \/ AssignBeginSafely
    \/ AssignLoop
    \/ SrtWriteOpen
    \/ WriteEntrySafely
    \/ WriteEntryRaise
    \/ WriteClose
    \/ AssWriteOpen
    \/ AssWriteHeader
    \/ AssWriteEntry
    \/ AssWriteEntryRaise
    \/ AssWriteClose
    \/ CallAgain

GenSpec == GenInit /\ [][GenNext]_vars

(***************************************************************************)
(* Exact arithmetic on floats, for the properties that speak of real       *)
(* numbers: a value is m * 2^e with m any natural number, never rounded.   *)
(***************************************************************************)
XMul(a, b) == [m |-> BMul(a.m, b.m), e |-> a.e + b.e]

\* a - b for a >= b
XDiff(a, b) ==
    LET lo == IF a.e < b.e THEN a.e ELSE b.e
    IN  [m |-> BSub(BShl(a.m, a.e - lo), BShl(b.m, b.e - lo)), e |-> lo]

XEq(a, b) ==
    LET lo == IF a.e < b.e THEN a.e ELSE b.e
    IN  BShl(a.m, a.e - lo) = BShl(b.m, b.e - lo)

(***************************************************************************)
(* The allocator, under Spec.                                              *)
(***************************************************************************)
\* _assign_timings has returned
Allocated == pc \in {"write", "emit", "done"}

LastEntry == subtitle_entries[Len(subtitle_entries)]

Contiguous ==
    \A i \in 1..(Len(subtitle_entries) - 1) :
        subtitle_entries[i + 1].start_time = subtitle_entries[i].end_time

\* the end of cue i before the clamp: start + line_duration * scale_factor
UnclampedEnd(i) ==
    FAdd(subtitle_entries[i].start_time, FMul(line_durations[i], scale_factor))

Clamped(i) == FCmp(UnclampedEnd(i), duration) > 0

\* C1 (P1, coverage): once the allocator has returned for a non-empty line
\* sequence whose raw durations sum to no more than the duration, there is one
\* cue per line, the first starts at 0, each cue starts where the one before
\* ended, and the last cue ends exactly at the duration.
C1_Coverage ==
    (Allocated /\ lines # <<>> /\ FLe(total_calculated_duration, duration)) =>
        /\ Len(subtitle_entries) = Len(lines)
        /\ subtitle_entries[1].start_time = FZero
        /\ Contiguous
        /\ LastEntry.end_time = duration

C3_Monotonic ==
    /\ \A i \in 1..Len(subtitle_entries) :
          /\ FLe(FZero, subtitle_entries[i].start_time)
          /\ FLt(subtitle_entries[i].start_time, subtitle_entries[i].end_time)
    /\ Contiguous

\* C4: every cue ends at the duration or before it, an end beyond the
\* duration is clamped to exactly the duration, and no cue is emitted once
\* current_time has reached the duration: the start of a cue is the
\* current_time it was emitted at, so every cue starts before the duration.
C4_EndWithinDuration ==
    \A i \in 1..Len(subtitle_entries) :
        /\ FLe(subtitle_entries[i].end_time, duration)
        /\ Clamped(i) => subtitle_entries[i].end_time = duration
        /\ FLt(subtitle_entries[i].start_time, duration)

\* C5 (proportional allocation): for a positive duration, every cue that is
\* not clamped lasts exactly raw_i * duration / raw_total, so that cues of
\* lines at the 2.0 s floor last equally long, and the cues of all the lines
\* together last exactly the duration (they are contiguous from 0, so the
\* last one ends at the duration).
C5_Proportional ==
    (Allocated /\ lines # <<>> /\ ~FIsZero(duration)) =>
        LET span == [i \in 1..Len(subtitle_entries) |->
                        XDiff(subtitle_entries[i].end_time,
                              subtitle_entries[i].start_time)]
            free == {i \in 1..Len(subtitle_entries) : ~Clamped(i)}
        IN  /\ \A i \in free :
                  XEq(XMul(span[i], total_calculated_duration),
                      XMul(line_durations[i], duration))
            /\ \A i, j \in free :
                  line_durations[i] = line_durations[j] => XEq(span[i], span[j])
            /\ Len(subtitle_entries) = Len(lines)
            /\ subtitle_entries[1].start_time = FZero
            /\ Contiguous
            /\ LastEntry.end_time = duration

(***************************************************************************)
(* The segmenter, under SegSpec: what _split_lyrics is to return, said     *)
(* with positions rather than by running it.                               *)
(***************************************************************************)
\* where the raw lines of text begin and end: the line feeds, 0 and Len + 1
BreakPositions(text) ==
    {0, Len(text) + 1} \cup {i \in 1..Len(text) : text[i] = LF}

\* the raw line that begins after the break at b
RawLineAfter(text, b) ==
    LET later == {n \in BreakPositions(text) : n > b}
        next  == CHOOSE n \in later : \A m \in later : n <= m
    IN  SubSeq(text, b + 1, next - 1)

\* s from its first to its last character that is not whitespace
Trimmed(s) ==
    LET ink == {i \in 1..Len(s) : s[i] \notin Whitespace}
    IN  IF ink = {} THEN <<>>
        ELSE SubSeq(s, CHOOSE i \in ink : \A j \in ink : i <= j,
                       CHOOSE i \in ink : \A j \in ink : i >= j)

\* '[' + any characters + ']' and nothing else
Bracketed(s) == Len(s) >= 2 /\ s[1] = "[" /\ s[Len(s)] = "]"

\* the breaks after which a line begins that survives
KeptBreaks(text) ==
    {b \in BreakPositions(text) \ {Len(text) + 1} :
        /\ Trimmed(RawLineAfter(text, b)) # <<>>
        /\ ~Bracketed(Trimmed(RawLineAfter(text, b)))}

ExpectedLines(text) ==
    LET kept == KeptBreaks(text)
    IN  [j \in 1..Cardinality(kept) |->
            Trimmed(RawLineAfter(text,
                CHOOSE b \in kept : Cardinality({c \in kept : c <= b}) = j))]

HelloWorld == << <<"h", "e", "l", "l", "o">>, <<"w", "o", "r", "l", "d">> >>

HasEmbeddedMarker(line) ==
    \E i, j \in 1..Len(line) : i < j /\ line[i] = "[" /\ line[j] = "]"

\* C7, as stated: every returned line is non-empty, has no whitespace at
\* either end, and has no bracketed marker anywhere inside.
C7_NoEmbeddedMarker ==
    pc = "returned" =>
        \A i \in 1..Len(lines) :
            /\ lines[i] # <<>>
            /\ lines[i][1] \notin Whitespace
            /\ lines[i][Len(lines[i])] \notin Whitespace
            /\ ~HasEmbeddedMarker(lines[i])

\* C7, amended: every returned line is non-empty, has no whitespace at
\* either end, and is not as a whole a bracketed marker.
C7_TrimmedNotBracketed ==
    pc = "returned" =>
        \A i \in 1..Len(lines) :
            /\ lines[i] # <<>>
            /\ lines[i][1] \notin Whitespace
            /\ lines[i][Len(lines[i])] \notin Whitespace
            /\ ~Bracketed(lines[i])

\* a line with a marker inside and text around it has been returned
C7_EmbeddedMarkerKept ==
    /\ pc = "returned"
    /\ \E i \in 1..Len(lines) : HasEmbeddedMarker(lines[i])

(***************************************************************************)
(* The emitter, under Spec.                                                *)
(***************************************************************************)
LineBreaks == {LF, CR}

CountBreaks(s) == Cardinality({i \in 1..Len(s) : s[i] \in LineBreaks})

\* C8: no line the segmenter returned has a line feed or a carriage return
\* inside, so that the file, once written, has four line breaks per record.
C8_FourLinesPerRecord ==
    /\ \A i \in 1..Len(lines) :
          \A k \in 1..Len(lines[i]) : lines[i][k] \notin LineBreaks
    /\ pc = "done" => CountBreaks(file) = 4 * Len(subtitle_entries)

DigitValue(c) ==
    IF \E d \in 0..9 : Digits(d) = <<c>>
    THEN CHOOSE d \in 0..9 : Digits(d) = <<c>>
    ELSE -1

RECURSIVE ParseDigits(_, _, _)
ParseDigits(ds, i, acc) ==
    IF i > Len(ds) THEN acc
    ELSE ParseDigits(ds, i + 1, 10 * acc + DigitValue(ds[i]))

\* the number ds is the decimal writing of, -1 if it is none
ParseNat(ds) ==
    IF ds = <<>> \/ \E i \in 1..Len(ds) : DigitValue(ds[i]) < 0
    THEN -1
    ELSE ParseDigits(ds, 1, 0)

\* the records the file holds so far
RecordsWritten == IF pc = "done" THEN Len(subtitle_entries) ELSE widx - 1

\* C9: while and after the emitter writes, the file read line by line is one
\* record per cue written so far, in cue order: the number k of the cue,
\* written without padding, counting from 1; the line "<start> --> <end>";
\* the text of the cue; a blank line.  Nothing follows the last record, and
\* no cue means an empty file.
C9_SrtRecords ==
    pc \in {"emit", "done"} =>
        LET n    == RecordsWritten
            rows == StrSplit(file, LF)
        IN  /\ Len(rows) = 4 * n + 1
            /\ rows[4 * n + 1] = <<>>
            /\ n = 0 => file = <<>>
            /\ \A k \in 1..n :
                  /\ ParseNat(rows[4 * k - 3]) = k
                  /\ rows[4 * k - 3][1] # "0"
                  /\ rows[4 * k - 2] =
                        FormatTime(subtitle_entries[k].start_time) \o Arrow
                        \o FormatTime(subtitle_entries[k].end_time)
                  /\ rows[4 * k - 1] = subtitle_entries[k].text
                  /\ rows[4 * k] = <<>>

\* a file of three records has been written and closed
C9_ThreeRecordsWritten ==
    /\ pc = "done"
    /\ Len(subtitle_entries) = 3
    /\ Len(StrSplit(file, LF)) = 13

(***************************************************************************)
(* _format_time, under FormatSpec.                                         *)
(***************************************************************************)
\* the pieces of HH:MM:SS,mmm
StampParts(st) ==
    LET halves == StrSplit(st, ",")
    IN  IF Len(halves) # 2 THEN <<>>
        ELSE StrSplit(halves[1], ":") \o <<halves[2]>>

WellFormedStamp(st) ==
    LET parts == StampParts(st)
    IN  /\ Len(parts) = 4
        /\ Len(parts[1]) >= 2 /\ Len(parts[2]) = 2
        /\ Len(parts[3]) = 2 /\ Len(parts[4]) = 3
        /\ \A i \in 1..4 : ParseNat(parts[i]) >= 0

\* the time a stamp reads as, in milliseconds
StampMillis(st) ==
    LET parts == StampParts(st)
    IN  ParseNat(parts[1]) * 3600000 + ParseNat(parts[2]) * 60000
        + ParseNat(parts[3]) * 1000 + ParseNat(parts[4])

\* floor(t * 1000) as the floats compute it
FloorMillis(t) == FToInt(FFloor(FMul(t, FFromInt(1000))))

\* C10: the stamp of a time of t_ms whole milliseconds reads HH:MM:SS,mmm
\* with MM and SS below 60 and mmm below 1000, it reads as floor(t * 1000)
\* milliseconds, be that the t_ms the time was taken at or the product the
\* floats compute, with the hours as many as they are, and it reads as no
\* less than the stamp of the millisecond before.
C10_FormatTimeExact ==
    pc = "returned" =>
        /\ WellFormedStamp(stamp)
        /\ ParseNat(StampParts(stamp)[2]) < 60
        /\ ParseNat(StampParts(stamp)[3]) < 60
        /\ ParseNat(StampParts(stamp)[4]) < 1000
        /\ StampMillis(stamp) \in {t_ms, FloorMillis(seconds)}
        /\ t_ms > 0 =>
              StampMillis(FormatTime(FRatio(t_ms - 1, 1000))) <= StampMillis(stamp)

\* the pieces of H:MM:SS.cc
StampPartsAss(st) ==
    LET halves == StrSplit(st, ".")
    IN  IF Len(halves) # 2 THEN <<>>
        ELSE StrSplit(halves[1], ":") \o <<halves[2]>>

WellFormedStampAss(st) ==
    LET parts == StampPartsAss(st)
    IN  /\ Len(parts) = 4
        /\ Len(parts[1]) >= 1 /\ Len(parts[2]) = 2
        /\ Len(parts[3]) = 2 /\ Len(parts[4]) = 2
        /\ \A i \in 1..4 : ParseNat(parts[i]) >= 0
        /\ Len(parts[1]) > 1 => parts[1][1] # "0"

\* the time a styled stamp reads as, in centiseconds
StampCentis(st) ==
    LET parts == StampPartsAss(st)
    IN  ParseNat(parts[1]) * 360000 + ParseNat(parts[2]) * 6000
        + ParseNat(parts[3]) * 100 + ParseNat(parts[4])

\* floor(t * 100) as the floats compute it
FloorCentis(t) == FToInt(FFloor(FMul(t, FFromInt(100))))

\* C11: the styled stamp of a time t, given as t_ms whole milliseconds, reads
\* H:MM:SS.cc with the hours unpadded, MM and SS below 60 and cc below 100,
\* and it reads as floor(t * 100) centiseconds, be that the floor of the
\* decimal time (t_ms \div 10) or of the product the floats compute; 5.5 is
\* stamped 0:00:05.50.
C11_FormatTimeAssExact ==
    pc = "returned_ass" =>
        /\ WellFormedStampAss(stamp)
        /\ ParseNat(StampPartsAss(stamp)[2]) < 60
        /\ ParseNat(StampPartsAss(stamp)[3]) < 60
        /\ ParseNat(StampPartsAss(stamp)[4]) < 100
        /\ StampCentis(stamp) \in {t_ms \div 10, FloorCentis(seconds)}
        /\ t_ms = 5500 =>
              stamp = <<"0", ":", "0", "0", ":", "0", "5", ".", "5", "0">>

(***************************************************************************)
(* The styled document, under GenSpec: the file read row by row.           *)
(***************************************************************************)
HasPrefix(s, p) == Len(s) >= Len(p) /\ SubSeq(s, 1, Len(p)) = p

HasSuffix(s, p) ==
    Len(s) >= Len(p) /\ SubSeq(s, Len(s) - Len(p) + 1, Len(s)) = p

StyleMark == <<"S", "t", "y", "l", "e", ":", " ">>
DialogueMark == <<"D", "i", "a", "l", "o", "g", "u", "e", ":", " ">>
FormatMark == <<"F", "o", "r", "m", "a", "t", ":">>
DefaultName == <<"D", "e", "f", "a", "u", "l", "t">>

\* the k-th least member of a set of positions
NthOf(S, k) == CHOOSE i \in S : Cardinality({j \in S : j <= i}) = k

\* the pieces of s between the occurrences of the character c
Pieces(s, c) ==
    LET at == {i \in 1..Len(s) : s[i] = c}
        cut(k) == IF k = 0 THEN 0
                  ELSE IF k > Cardinality(at) THEN Len(s) + 1
                  ELSE NthOf(at, k)
    IN  [k \in 1..(Cardinality(at) + 1) |->
            SubSeq(s, cut(k - 1) + 1, cut(k) - 1)]

\* the rows of the file
FileRows == Pieces(file, LF)

\* the rows that begin with mark
RowsWith(mark) ==
    LET rows == FileRows
    IN  {i \in 1..Len(rows) : HasPrefix(rows[i], mark)}

\* the columns of row i after its mark
Columns(i, mark) ==
    LET row == FileRows[i]
    IN  Pieces(SubSeq(row, Len(mark) + 1, Len(row)), ",")

StyledDone == pc = "done" /\ format = "ass"

\* C12: a finished styled document has exactly one style row, named Default,
\* and one cue row per cue in cue order, each with layer 0, the stamps of its
\* cue, a style name that a style row defines and that is Default, an empty
\* speaker name, three 0 margins, an empty effect, and the text of its cue at
\* its end.
C12_OneStyleOneRowPerCue ==
    StyledDone =>
        /\ Cardinality(RowsWith(StyleMark)) = 1
        /\ \A i \in RowsWith(StyleMark) : Columns(i, StyleMark)[1] = DefaultName
        /\ Cardinality(RowsWith(DialogueMark)) = Len(subtitle_entries)
        /\ \A k \in 1..Len(subtitle_entries) :
              LET i == NthOf(RowsWith(DialogueMark), k)
                  f == Columns(i, DialogueMark)
              IN  /\ Len(f) >= 10
                  /\ f[1] = <<"0">>
                  /\ f[2] = FormatTimeAss(subtitle_entries[k].start_time)
                  /\ f[3] = FormatTimeAss(subtitle_entries[k].end_time)
                  /\ f[4] = DefaultName
                  /\ \E j \in RowsWith(StyleMark) : Columns(j, StyleMark)[1] = f[4]
                  /\ f[5] = <<>>
                  /\ f[6] = <<"0">> /\ f[7] = <<"0">> /\ f[8] = <<"0">>
                  /\ f[9] = <<>>
                  /\ HasSuffix(FileRows[i], subtitle_entries[k].text)

\* a styled document of two cues is finished
C12_TwoCueRows ==
    /\ StyledDone
    /\ Len(subtitle_entries) = 2
    /\ Cardinality(RowsWith(DialogueMark)) = 2

\* the rows that are bracketed section headers
HeaderRows ==
    LET rows == FileRows
    IN  {i \in 1..Len(rows) : Bracketed(rows[i])}

InfoName == <<"[", "S", "c", "r", "i", "p", "t", " ", "I", "n", "f", "o", "]">>
StylesName == <<"[", "V", "4", "+", " ", "S", "t", "y", "l", "e", "s", "]">>
EventsName == <<"[", "E", "v", "e", "n", "t", "s", "]">>

\* the three sections, each introduced by its header, in the fixed order
ThreeSections ==
    /\ Cardinality(HeaderRows) = 3
    /\ NthOf(HeaderRows, 1) = 1
    /\ FileRows[NthOf(HeaderRows, 1)] = InfoName
    /\ FileRows[NthOf(HeaderRows, 2)] = StylesName
    /\ FileRows[NthOf(HeaderRows, 3)] = EventsName

\* the row after header row h declares the columns
FormatFollows(h) ==
    h + 1 <= Len(FileRows) /\ HasPrefix(FileRows[h + 1], FormatMark)

\* C13 (as stated): a finished styled document has the three sections in
\* the fixed order, and in each of the three the bracketed header line is
\* followed by a "Format:" line.
C13_FormatInEverySection ==
    StyledDone =>
        /\ ThreeSections
        /\ \A h \in HeaderRows : FormatFollows(h)

\* C13 (amended): a finished styled document has the three sections in the
\* fixed order, each introduced by its bracketed header line; in the style
\* table and in the events the header is followed by a "Format:" line that
\* precedes every data row of the section; [Script Info] has no "Format:"
\* line: its header is followed by "Key: value" rows.
C13_SectionsInOrder ==
    StyledDone =>
        /\ ThreeSections
        /\ LET info == NthOf(HeaderRows, 1)
               styles == NthOf(HeaderRows, 2)
               events == NthOf(HeaderRows, 3)
           IN  /\ FormatFollows(styles)
               /\ FormatFollows(events)
               /\ RowsWith(FormatMark) = {styles + 1, events + 1}
               /\ \A i \in RowsWith(StyleMark) : styles + 1 < i /\ i < events
               /\ \A i \in RowsWith(DialogueMark) : events + 1 < i
               /\ \A i \in (info + 1)..(styles - 1) :
                     \/ FileRows[i] = <<>>
                     \/ /\ Len(Pieces(FileRows[i], ":")) = 2
                        /\ ~HasPrefix(FileRows[i], FormatMark)
               /\ info + 1 < styles - 1

\* a styled document of two cues is finished, and the row after
\* [Script Info] is the title
C13_TitleAfterScriptInfo ==
    /\ StyledDone
    /\ Len(subtitle_entries) = 2
    /\ HasPrefix(FileRows[2], <<"T", "i", "t", "l", "e", ":">>)

\* the text payload of cue row i: what follows its ninth comma
PayloadOf(i) ==
    LET row == FileRows[i]
        f == Columns(i, DialogueMark)
        skip == Len(DialogueMark) + 9 + Len(f[1]) + Len(f[2]) + Len(f[3])
                + Len(f[4]) + Len(f[5]) + Len(f[6]) + Len(f[7]) + Len(f[8])
                + Len(f[9])
    IN  SubSeq(row, skip + 1, Len(row))

\* seconds times 1000, in floats, truncated
TruncatedMillis(fade) == FToInt(FFloor(FMul(fade, FFromInt(1000))))

Fad(in, out) ==
    <<"{", "\\", "f", "a", "d", "(">> \o in \o <<",">> \o out \o <<")", "}">>

\* C14: in a finished styled document the text payload of the k-th cue row
\* is {\fad(<in_ms>,<out_ms>)} followed at once by the unmodified text of
\* the k-th cue, in_ms and out_ms being the style's fade seconds times 1000,
\* truncated; 0.4 and 0.4 give {\fad(400,400)}, the defaults 0.3 and 0.3
\* give {\fad(300,300)}; every cue row carries the same directive.
C14_FadePayload ==
    StyledDone =>
        \A k \in 1..Len(subtitle_entries) :
            LET payload == PayloadOf(NthOf(RowsWith(DialogueMark), k))
            IN  /\ payload =
                       Fad(Digits(TruncatedMillis(style.fade_in)),
                           Digits(TruncatedMillis(style.fade_out)))
                       \o subtitle_entries[k].text
                /\ style = RichStyle =>
                       HasPrefix(payload,
                           Fad(<<"4", "0", "0">>, <<"4", "0", "0">>))
                /\ style = DefaultStyle =>
                       HasPrefix(payload,
                           Fad(<<"3", "0", "0">>, <<"3", "0", "0">>))

\* a styled document of two cues with fades of 0.4 s is finished: its second
\* payload is {\fad(400,400)} and the text of the second cue
C14_Fad400 ==
    /\ StyledDone
    /\ style = RichStyle
    /\ Len(subtitle_entries) = 2
    /\ PayloadOf(NthOf(RowsWith(DialogueMark), 2)) =
           Fad(<<"4", "0", "0">>, <<"4", "0", "0">>) \o subtitle_entries[2].text

\* the columns that the "Format:" row before the style row declares
StyleColumnNames ==
    MapStrip(Columns(NthOf(RowsWith(FormatMark), 1), FormatMark))

BoldName == <<"B", "o", "l", "d">>

\* the column of the style row that the format row calls Bold
BoldColumn ==
    LET k == CHOOSE k \in 1..Len(StyleColumnNames) :
                 StyleColumnNames[k] = BoldName
    IN  Columns(NthOf(RowsWith(StyleMark), 1), StyleMark)[k]

\* C15 (P7): in a finished styled document exactly one column is declared
\* as Bold, and the style row holds -1 there when the bold flag of the style
\* is true and 0 when it is false.
C15_BoldColumn ==
    StyledDone =>
        /\ Cardinality({k \in 1..Len(StyleColumnNames) :
                           StyleColumnNames[k] = BoldName}) = 1
        /\ style.bold => BoldColumn = <<"-", "1">>
        /\ ~style.bold => BoldColumn = <<"0">>

\* a styled document with the bold flag off is finished and holds 0
C15_BoldOff == StyledDone /\ ~style.bold /\ BoldColumn = <<"0">>

\* every line of the lyrics is empty, whitespace or a bracket marker
NothingToShow == KeptBreaks(lyrics) = {}

\* C16 (P9): when every line of the lyrics is empty, whitespace or a bracket
\* marker, the call never raises, segmenting yields no line and allocating no
\* cue; generate_srt leaves a file of zero bytes, whatever the path held
\* before, and generate_ass leaves a document with its three section
\* headers, its one style row and no cue row after the column declaration
\* of the events.
C16_CueFreeDocument ==
    NothingToShow =>
        /\ lines = <<>> /\ subtitle_entries = <<>>
        /\ pc # "raised" /\ error = ""
        /\ (pc = "done" /\ format = "srt") => file = <<>>
        /\ StyledDone =>
              /\ ThreeSections
              /\ Cardinality(RowsWith(StyleMark)) = 1
              /\ RowsWith(DialogueMark) = {}
              /\ FormatFollows(NthOf(HeaderRows, 3))
              /\ Len(FileRows) = NthOf(HeaderRows, 3) + 2
              /\ FileRows[Len(FileRows)] = <<>>

\* the styled document of a blank line and a heading is finished, with its
\* headers and without a cue row
C16_HeadersOnly ==
    /\ StyledDone
    /\ lyrics = BlankAndHeadingLyrics
    /\ Cardinality(HeaderRows) = 3
    /\ RowsWith(DialogueMark) = {}

\* C17: with chars_per_second > 0 no call raises, whatever the lines and
\* the total_duration: neither the allocator nor the emitter.
C17_NeverRaises ==
    ~FIsZero(chars_per_second) => (pc # "raised" /\ error = "")

\* the document of a cue list in the sequential format
SrtDocument(entries) ==
    Concat([k \in 1..Len(entries) |-> SrtRecord(k, entries[k])])

\* the document of a cue list in the styled format
AssDocument(st, entries) ==
    Concat(AssHeaderWrites(st))
    \o Concat([k \in 1..Len(entries) |-> DialogueRow(st, entries[k])])

\* C20: when a call has finished, the file is exactly the document of the
\* cues of that call, whatever the path held before the call (nothing, a
\* document of more cues, or the document that the same call left the time
\* before): nothing of the old content remains, and the second of two equal
\* calls leaves what the first one left.
C20_WholeFileReplaced ==
    pc = "done" =>
        /\ format = "srt" => file = SrtDocument(subtitle_entries)
        /\ format = "ass" => file = AssDocument(style, subtitle_entries)
        /\ subtitle_entries = <<>> /\ format = "srt" => file = <<>>

\* the second of two equal calls has finished a document of two records
C20_EmittedTwice ==
    /\ pc = "done"
    /\ runs = 2
    /\ format = "srt"
    /\ Len(subtitle_entries) = 2
    /\ file = SrtDocument(subtitle_entries)

(***************************************************************************)
(* _write_srt and _write_ass write by write, on a file object that keeps   *)
(* what f.write took in a buffer until it is flushed; a flush may fail.    *)
(***************************************************************************)
\* _write_srt: the j-th of the four writes of entry i
SrtWrite(i, entry, j) ==
    CASE j = 1 -> Digits(i) \o <<LF>>
      [] j = 2 -> FormatTime(entry.start_time) \o Arrow
                  \o FormatTime(entry.end_time) \o <<LF>>
      [] j = 3 -> entry.text \o <<LF>>
      [] OTHER -> <<LF>>

\* _write_ass: the number of writes before the loop
HeaderWriteCount == Len(AssHeaderWrites(DefaultStyle))

\* the number of calls of f.write
WriteCount(fmt, entries) ==
    IF fmt = "srt" THEN 4 * Len(entries) ELSE HeaderWriteCount + Len(entries)

\* the argument of the n-th call of f.write
NthWrite(fmt, st, entries, n) ==
    IF fmt = "srt"
    THEN SrtWrite(((n - 1) \div 4) + 1, entries[((n - 1) \div 4) + 1],
                  ((n - 1) % 4) + 1)
    ELSE IF n <= HeaderWriteCount THEN AssHeaderWrites(st)[n]
    ELSE DialogueRow(st, entries[n - HeaderWriteCount])

\* the cue lists handed to the emitter
CueInputs == {<<>>, SubSeq(ThreeCues, 1, 1), ThreeCues}

\* how much of the buffer may reach the file by the flush that fails
FailPoints(buf) == {0, Len(buf) \div 2}

IoInit ==
    /\ pc = "write"
    /\ subtitle_entries \in CueInputs
    /\ format \in {"srt", "ass"}
    /\ style \in IF format = "ass" THEN {DefaultStyle, RichStyle}
                 ELSE {DefaultStyle}
    /\ file \in PriorFiles
    /\ buffer = <<>>
    /\ handle = "none"
    /\ error = ""
    /\ runs = 1
    /\ widx = 0
    /\ lyrics = <<>> /\ duration = FZero /\ chars_per_second = FZero
    /\ lines = <<>>
    /\ line_durations = <<>>
    /\ total_calculated_duration = FZero
    /\ scale_factor = FZero
    /\ current_time = FZero
    /\ idx = 0
    /\ t_ms = 0 /\ seconds = FZero /\ stamp = <<>>
    /\ fs = <<>> /\ calls = <<>>
    /\ NoPipeline

ioFrame == <<inputVars, lines, allocVars, formatVars, format, style, runs,
             callVars, pipelineVars>>

\* with open(output_path, 'w', encoding='utf-8') as f
IoOpen ==
    /\ pc = "write"
    /\ file' = <<>>
    /\ handle' = "open"
    /\ widx' = 1
    /\ pc' = "emit_io"
    /\ UNCHANGED <<ioFrame, buffer, error>>

\* f.write(...): the text goes to the buffer of f
IoWrite ==
    /\ pc = "emit_io"
    /\ widx <= WriteCount(format, subtitle_entries)
    /\ buffer' = buffer \o NthWrite(format, style, subtitle_entries, widx)
    /\ widx' = widx + 1
    /\ UNCHANGED <<ioFrame, pc, file, handle, error>>

\* the buffer of f is flushed to the file, inside some f.write
IoFlush ==
    /\ pc = "emit_io"
    /\ buffer # <<>>
    /\ file' = file \o buffer
    /\ buffer' = <<>>
    /\ UNCHANGED <<ioFrame, pc, widx, handle, error>>

\* A failure after which the emitter removes what it had written.
IoFailCleanup ==
    /\ pc = "emit_io"
    /\ buffer # <<>>
    /\ file' = <<>>
    /\ buffer' = <<>>
    /\ handle' = "closed"
    /\ error' = "OSError"
    /\ pc' = "raised"
    /\ UNCHANGED <<ioFrame, widx>>

\* a flush fails, inside f.write or at the end of the with statement: part
\* of the buffer may have reached the file, the with statement closes f,
\* and the OSError goes up to the caller, there being no try around it
IoFail ==
    /\ pc = "emit_io"
    /\ buffer # <<>>
    /\ \E n \in FailPoints(buffer) : file' = file \o SubSeq(buffer, 1, n)
    /\ buffer' = <<>>
    /\ handle' = "closed"
    /\ error' = "OSError"
    /\ pc' = "raised"
    /\ UNCHANGED <<ioFrame, widx>>

\* the end of the with statement: f is flushed and closed
IoClose ==
    /\ pc = "emit_io"
    /\ widx > WriteCount(format, subtitle_entries)
    /\ file' = file \o buffer
    /\ buffer' = <<>>
    /\ handle' = "closed"
    /\ pc' = "done"
    /\ UNCHANGED <<ioFrame, widx, error>>

IoNext ==
    \/ IoOpen
    \/ IoWrite
    \/ IoFlush
    \/ IoFail
    \/ IoClose

IoSpec == IoInit /\ [][IoNext]_vars

\* the document of the cues at hand
CompleteDocument ==
    IF format = "srt" THEN SrtDocument(subtitle_entries)
    ELSE AssDocument(style, subtitle_entries)

\* C18: when a write fails part-way, the caller gets the OSError itself,
\* the file object is closed, and the file holds a beginning of the whole
\* document; from the opening on the file only grows, the failing step
\* included, so what had reached the file before the failure remains; after
\* the failure the emitter takes no step: no retry, no cleanup.  A call
\* without failure leaves the whole document and a closed file object.
C18_PartialFileLeft ==
    /\ [](pc = "raised" =>
            /\ error = "OSError"
            /\ handle = "closed"
            /\ HasPrefix(CompleteDocument, file))
    /\ [](pc = "done" =>
            error = "" /\ handle = "closed" /\ file = CompleteDocument)
    /\ [][handle = "open" => HasPrefix(file', file)]_vars
    /\ [][pc # "raised"]_vars

\* a write has failed after the first record had reached the file and
\* before the third one had
C18_FirstRecordLeft ==
    /\ pc = "raised"
    /\ format = "srt"
    /\ subtitle_entries = ThreeCues
    /\ HasPrefix(file, SrtRecord(1, ThreeCues[1]))
    /\ Len(file) < Len(SrtRecord(1, ThreeCues[1]) \o SrtRecord(2, ThreeCues[2]))

(***************************************************************************)
(* Two calls of the emitter under way at once.  SubtitleGenerator keeps no *)
(* field (__init__ only logs): what a call works on are its arguments and  *)
(* its locals, calls[i], and the file at its output_path.  Each call has   *)
(* its own file object, which writes at its own position.  What a call     *)
(* will hand to f.write depends on its arguments only: calls[i].writes.    *)
(***************************************************************************)
CallIds == {1, 2}
Paths == {"a", "b"}

\* a gap that a write beyond the end of the file leaves
NUL == "NUL"

\* text written into content after the first pos characters
WriteAt(content, pos, text) ==
    LET padded == content
                  \o [k \in 1..(pos - Len(content)) |-> NUL]
    IN  SubSeq(padded, 1, pos) \o text
        \o SubSeq(padded, pos + Len(text) + 1, Len(padded))

\* The path of the first call, as if the generator kept it in a field.
OutputPathKept(i) == calls[1].path

\* output_path of call i
OutputPath(i) == calls[i].path

\* the arguments of the calls of f.write, in the order of the calls
Writes(fmt, st, entries) ==
    [n \in 1..WriteCount(fmt, entries) |-> NthWrite(fmt, st, entries, n)]

CallInputs ==
    {[pc |-> "write", path |-> p, format |-> f, style |-> DefaultStyle,
      entries |-> e, writes |-> Writes(f, DefaultStyle, e),
      widx |-> 0, pos |-> 0] :
        p \in Paths, f \in {"srt", "ass"}, e \in CueInputs}

\* two calls on the same path are taken with short sequential documents
TwoInit ==
    /\ calls \in [CallIds -> CallInputs]
    /\ calls[1].path = "a"
    /\ calls[1].path = calls[2].path =>
          \A i \in CallIds :
              calls[i].format = "srt" /\ Len(calls[i].entries) <= 1
    /\ fs \in [Paths -> PriorFiles]
    /\ pc = "calls"
    /\ file = <<>> /\ buffer = <<>> /\ handle = "none"
    /\ NoPipeline
    /\ format = "srt" /\ style = DefaultStyle /\ error = "" /\ runs = 1
    /\ widx = 0
    /\ subtitle_entries = <<>>
    /\ lyrics = <<>> /\ duration = FZero /\ chars_per_second = FZero
    /\ lines = <<>>
    /\ line_durations = <<>>
    /\ total_calculated_duration = FZero
    /\ scale_factor = FZero
    /\ current_time = FZero
    /\ idx = 0
    /\ t_ms = 0 /\ seconds = FZero /\ stamp = <<>>

oneCallVars == <<pc, inputVars, lines, allocVars, file, widx, formatVars,
                 genVars, ioVars, pipelineVars>>

\* with open(output_path, 'w', encoding='utf-8') as f
CallOpen(i) ==
    /\ calls[i].pc = "write"
    /\ fs' = [fs EXCEPT ![OutputPath(i)] = <<>>]
    /\ calls' = [calls EXCEPT ![i].pc = "emit", ![i].widx = 1, ![i].pos = 0]
    /\ UNCHANGED oneCallVars

\* one f.write of call i
CallWrite(i) ==
    /\ calls[i].pc = "emit"
    /\ calls[i].widx <= Len(calls[i].writes)
    /\ LET text == calls[i].writes[calls[i].widx]
       IN  /\ fs' = [fs EXCEPT ![OutputPath(i)] =
                        WriteAt(@, calls[i].pos, text)]
           /\ calls' = [calls EXCEPT ![i].widx = @ + 1,
                                     ![i].pos = @ + Len(text)]
    /\ UNCHANGED oneCallVars

\* the end of the with statement of call i
CallClose(i) ==
    /\ calls[i].pc = "emit"
    /\ calls[i].widx > Len(calls[i].writes)
    /\ calls' = [calls EXCEPT ![i].pc = "done"]
    /\ UNCHANGED <<fs, oneCallVars>>

TwoNext ==
    \E i \in CallIds :
        \/ CallOpen(i)
        \/ CallWrite(i)
        \/ CallClose(i)

TwoSpec == TwoInit /\ [][TwoNext]_vars

\* the document that call i leaves when it runs alone
DocumentOf(i) ==
    IF calls[i].format = "srt" THEN SrtDocument(calls[i].entries)
    ELSE AssDocument(calls[i].style, calls[i].entries)

OwnPath(i) == \A j \in CallIds \ {i} : calls[j].path # calls[i].path

\* C19: a call whose output path no other call has leaves at that path
\* exactly the document it leaves when it runs alone, however the writes of
\* the two calls interleave and whatever the paths held before; and no step
\* of a call changes anything but the locals of that call and the file at
\* the path of that call.
C19_OwnDocumentAtOwnPath ==
    /\ [](\A i \in CallIds :
             (calls[i].pc = "done" /\ OwnPath(i)) =>
                 fs[calls[i].path] = DocumentOf(i))
    /\ [][\A i \in CallIds :
             calls'[i] # calls[i] =>
                 /\ \A j \in CallIds \ {i} : calls'[j] = calls[j]
                 /\ \A p \in Paths \ {calls[i].path} : fs'[p] = fs[p]]_vars

\* two calls on different paths have finished, one a sequential and one a
\* styled document of three cues
C19_BothDocumentsLeft ==
    /\ \A i \in CallIds : calls[i].pc = "done" /\ calls[i].entries = ThreeCues
    /\ calls[1].path # calls[2].path
    /\ calls[1].format = "srt" /\ calls[2].format = "ass"
    /\ fs["a"] = SrtDocument(ThreeCues)
    /\ fs["b"] = AssDocument(DefaultStyle, ThreeCues)

\* the allocator is past its scaling step for a non-empty line list
Scaled == pc \in {"loop", "write", "emit", "done"} /\ lines # <<>>

\* C26: for a non-empty line list every raw duration is at least 2, so
\* raw_total >= 2 * len(lines) > 0, the branch scale_factor = 1.0 is not
\* taken, and scale_factor is duration / raw_total (it is 1.0 only when the
\* duration equals raw_total).
C26_ScaleIsQuotient ==
    Scaled =>
        /\ Len(line_durations) = Len(lines)
        /\ \A i \in 1..Len(lines) : FLe(FFromInt(2), line_durations[i])
        /\ FLe(FFromInt(2 * Len(lines)), total_calculated_duration)
        /\ FLt(FZero, total_calculated_duration)
        /\ scale_factor = FDiv(duration, total_calculated_duration)
        /\ scale_factor = FFromInt(1) => duration = total_calculated_duration

\* three short lines have been scaled: raw_total is 6 and the scale is not 1
C26_ThreeLinesScaled ==
    /\ Scaled
    /\ Len(lines) = 3
    /\ total_calculated_duration = FFromInt(6)
    /\ scale_factor # FFromInt(1)

\* C27: at every point of the allocation and after it, cue k carries the
\* text of line k unchanged, and there are no more cues than lines: the
\* texts of the cues are a beginning of the line list.
C27_TextsArePrefix ==
    pc \in {"loop", "write", "emit", "done"} =>
        /\ Len(subtitle_entries) <= Len(lines)
        /\ \A k \in 1..Len(subtitle_entries) :
              subtitle_entries[k].text = lines[k]

\* the allocator has returned fewer cues than lines: only the end is missing
C27_SuffixDropped ==
    /\ Allocated
    /\ Len(subtitle_entries) >= 1
    /\ Len(subtitle_entries) < Len(lines)
    /\ subtitle_entries[1].text = lines[1]
    /\ lines[1] # lines[Len(lines)]

\* C28: generate_srt and generate_ass take their cues from the same
\* _split_lyrics and _assign_timings, so for equal arguments the cues are
\* the same; and for every time the styled stamp is the sequential stamp cut
\* to centiseconds: the same hours, minutes and seconds, and cc = mmm \div 10.
C28_StyledStampIsCutStamp ==
    pc = "returned_ass" =>
        LET srt == StampParts(FormatTime(seconds))
            ass == StampPartsAss(stamp)
        IN  /\ ParseNat(ass[1]) = ParseNat(srt[1])
            /\ ass[2] = srt[2]
            /\ ass[3] = srt[3]
            /\ ParseNat(ass[4]) = ParseNat(srt[4]) \div 10


(***************************************************************************)
(* VideoGenerator (video_generator.py): the audio-duration probe and the   *)
(* splitting of a track into shorts.  A media record says which files      *)
(* exist and what running ffprobe on the audio file comes to: "ok" (exit   *)
(* status 0 and a JSON document whose format.duration is the text of       *)
(* media.seconds), "exit" (a non-zero exit status, as for a file ffprobe   *)
(* cannot read or does not recognise: CalledProcessError), "no_duration"   *)
(* (no format.duration in the document: KeyError), "not_number" (a         *)
(* duration such as N/A, or output that is not JSON: ValueError) and       *)
(* "no_ffprobe" (no such program: subprocess.run raises                    *)
(* FileNotFoundError).                                                     *)
(***************************************************************************)

\* the subtitle generator is not called
NoSubtitles ==
    /\ lyrics = <<>> /\ chars_per_second = FZero
    /\ NoCall
    /\ t_ms = 0 /\ seconds = FZero /\ stamp = <<>>
    /\ format = "srt" /\ style = DefaultStyle /\ runs = 1
    /\ NoIo

subtitleVars == <<lyrics, chars_per_second, lines, allocVars, file, widx,
                  formatVars, format, style, runs, ioVars, callVars>>

\* what a call of VideoGenerator leaves alone
videoFrame == <<subtitleVars, sessionVars, clientVars>>

\* the exceptions the try of get_audio_duration turns into a return
ProbeCaught == {"exit", "no_duration", "not_number"}

ProbeOutcomes == {"ok", "no_ffprobe"} \cup ProbeCaught

\* get_audio_duration(audio_path): the exception it raises, "" when it returns
GetAudioDurationRaises(md) ==
    IF ~md.audio THEN "FileNotFoundError"
    ELSE IF md.probe = "no_ffprobe" THEN "FileNotFoundError"
    ELSE ""

\* get_audio_duration(audio_path): the float it returns when it does
GetAudioDurationValue(md) ==
    IF md.probe \in ProbeCaught THEN FZero ELSE md.seconds

\* math.ceil(x) for a float x >= 0
Ceil(x) == FToInt(FFloor(x)) + (IF FFloor(x) = x THEN 0 ELSE 1)

\* a variant that rounds the quotient down
NumPartsFloor(d, m) == FToInt(FFloor(FDiv(d, FFromInt(m))))
\* num_parts = math.ceil(duration / max_duration)
NumParts(d, m) == Ceil(FDiv(d, FFromInt(m)))

\* start_time = i * max_duration, an int
StartTime(i, m) == i * m

\* segment_duration = min(max_duration, duration - start_time): the builtin
\* gives its second argument only when that is less than the first
SegmentDuration(d, m, i) ==
    LET rest == FSub(d, FFromInt(StartTime(i, m)))
    IN  IF FLt(rest, FFromInt(m)) THEN rest ELSE FFromInt(m)

\* f"short_{i+1:02d}.mp4", the name of part i's file in output_dir
ShortName(i) ==
    <<"s", "h", "o", "r", "t", "_">> \o ZeroPad(Digits(i + 1), 2)
        \o <<".", "m", "p", "4">>

\* the ffmpeg run of part i: -ss start_time, -t segment_duration, the output
ShortCommand(d, m, i) ==
    [ss |-> StartTime(i, m), t |-> SegmentDuration(d, m, i), out |-> ShortName(i)]

\* track lengths in milliseconds: below, at and above one and two limits
AudioMillisInputs == {100, 6999, 7000, 29999, 30000, 30001, 45500, 60000, 61250}

\* the float after 30.0
JustOverThirty == [m |-> <<1, 0, 0, 240>>, e |-> 0 - 48]

AudioSecondsInputs ==
    { FRatio(ms, 1000) : ms \in AudioMillisInputs } \cup {JustOverThirty}

\* max_duration: the default, what part2 passes for a short track, another
MaxDurationInputs == {30, 60, 7}

MediaInputs ==
    [audio : BOOLEAN, image : BOOLEAN, probe : ProbeOutcomes,
     seconds : AudioSecondsInputs]

\* One call of get_audio_duration(audio_path) or of generate_shorts(
\* audio_path, image_path, output_dir, max_duration).
VideoInit ==
    /\ pc \in {"get_audio_duration", "generate_shorts"}
    /\ media \in MediaInputs
    /\ max_duration \in MaxDurationInputs
    /\ duration = FZero
    /\ num_parts = 0 /\ part = 0
    /\ commands = <<>> /\ generated_videos = <<>> /\ result = <<>>
    /\ error = ""
    /\ NoSubtitles /\ NoSessions /\ NoClient

\* get_audio_duration called by itself
GetAudioDuration ==
    /\ pc = "get_audio_duration"
    /\ IF GetAudioDurationRaises(media) # ""
       THEN /\ error' = GetAudioDurationRaises(media)
            /\ pc' = "raised"
            /\ UNCHANGED result
       ELSE /\ result' = <<GetAudioDurationValue(media)>>
            /\ pc' = "returned_duration"
            /\ UNCHANGED error
    /\ UNCHANGED <<media, max_duration, duration, num_parts, part, commands,
                   generated_videos, videoFrame>>

\* generate_shorts up to its loop: the two existence checks, the probe, the
\* number of parts
ShortsBegin ==
    /\ pc = "generate_shorts"
    /\ IF ~media.audio \/ ~media.image
       THEN /\ error' = "FileNotFoundError"
            /\ pc' = "raised"
            /\ UNCHANGED <<duration, num_parts>>
       ELSE IF GetAudioDurationRaises(media) # ""
       THEN /\ error' = GetAudioDurationRaises(media)
            /\ pc' = "raised"
            /\ UNCHANGED <<duration, num_parts>>
       ELSE /\ duration' = GetAudioDurationValue(media)
            /\ num_parts' = NumParts(duration', max_duration)
            /\ pc' = "parts"
            /\ UNCHANGED error
    /\ UNCHANGED <<media, max_duration, part, commands, generated_videos,
                   result, videoFrame>>

\* one turn of the loop, ffmpeg exits with status 0
ShortsPart ==
    /\ pc = "parts"
    /\ part < num_parts
    /\ commands' = Append(commands, ShortCommand(duration, max_duration, part))
    /\ generated_videos' = Append(generated_videos, ShortName(part))
    /\ part' = part + 1
    /\ UNCHANGED <<pc, error, media, max_duration, duration, num_parts,
                   result, videoFrame>>

\* one turn of the loop, ffmpeg exits with another status
ShortsPartFail ==
    /\ pc = "parts"
    /\ part < num_parts
    /\ commands' = Append(commands, ShortCommand(duration, max_duration, part))
    /\ error' = "RuntimeError"
    /\ pc' = "raised"
    /\ UNCHANGED <<media, max_duration, duration, num_parts, part,
                   generated_videos, result, videoFrame>>

\* the loop is over: return generated_videos
ShortsReturn ==
    /\ pc = "parts"
    /\ part = num_parts
    /\ result' = generated_videos
    /\ pc' = "returned_shorts"
    /\ UNCHANGED <<error, media, max_duration, duration, num_parts, part,
                   commands, generated_videos, videoFrame>>

VideoNext ==
    \/ GetAudioDuration
    \/ ShortsBegin
    \/ ShortsPart
    \/ ShortsPartFail
    \/ ShortsReturn

VideoSpec == VideoInit /\ [][VideoNext]_vars

\* C21: the audio-duration probe raises both when the media file is absent
\* and when it exists but cannot be probed; it returns a duration only for a
\* file it could read, so a call that returned had a successful probe.
C21_UnreadableRaises ==
    pc = "returned_duration" => media.audio /\ media.probe = "ok"

\* the parts of a track of d seconds under the limit m: the n with
\* (n - 1) * m < d <= n * m
PartsOf(d, m) ==
    CHOOSE n \in 1..100 :
        FLt(FFromInt((n - 1) * m), d) /\ FLe(d, FFromInt(n * m))

\* "short_" and the part's number in two digits at least, ".mp4"
ExpectedShortName(k) ==
    <<"s", "h", "o", "r", "t", "_">>
        \o (IF k < 10 THEN <<"0">> ELSE <<>>) \o Digits(k)
        \o <<".", "m", "p", "4">>

\* C23: generate_shorts splits audio of duration d > 0 with limit m into
\* ceil(d/m) parts, part i starting at i*m and lasting min(m, d - i*m): the
\* parts are contiguous and cover exactly [0, d], each lasts more than 0 and
\* at most m, the returned list has one path per part in order (short_01,
\* short_02, ...), and a call in which a part failed raises and returns
\* nothing.
C23_PartsCoverTrack ==
    /\ pc = "returned_shorts" /\ FLt(FZero, duration) =>
          LET n == PartsOf(duration, max_duration)
              m == FFromInt(max_duration)
          IN  /\ Len(commands) = n
              /\ \A k \in 1..n :
                    /\ commands[k].ss = (k - 1) * max_duration
                    /\ FLt(FZero, commands[k].t) /\ FLe(commands[k].t, m)
                    /\ k < n => commands[k].t = m
                    /\ k = n =>
                          XEq(XDiff(duration, FFromInt(commands[k].ss)),
                              commands[k].t)
              /\ Len(result) = n
              /\ \A k \in 1..n :
                    /\ result[k] = ExpectedShortName(k)
                    /\ commands[k].out = result[k]
    /\ pc = "raised" => result = <<>>
    /\ pc = "parts" => result = <<>>

C23_ThreePartsLastShort ==
    /\ pc = "returned_shorts"
    /\ max_duration = 30
    /\ Len(result) = 3
    /\ commands[3].ss = 60
    /\ commands[3].t = FRatio(5, 4)

(***************************************************************************)
(* SessionManager (session_manager.py).  base_dir says what each name in   *)
(* the sessions directory is: "absent", "file" (a regular file), "dir" (a  *)
(* directory without metadata.json), "text" (a directory whose             *)
(* metadata.json is not a JSON document, the empty file included) or       *)
(* "json" (a directory whose metadata.json holds the JSON object data).    *)
(* Every value of a session here is a str or None, which json.dump and     *)
(* json.load carry over unchanged, so the object in the file is written as *)
(* the dict that was dumped.  None is written as a text no field holds.    *)
(***************************************************************************)
None == "<None>"

\* the fields of Session without a default
RequiredFields ==
    {"session_id", "created_at", "status", "news_title", "news_source",
     "news_date"}

\* the fields of Session with a default
Defaults ==
    [evaluation_score |-> None, is_suitable |-> None,
     structured_news_file |-> "structured_news.json",
     lyrics_file |-> "lyrics.txt", music_file |-> None,
     thumbnail_file |-> None, video_file |-> None,
     youtube_info_file |-> None, youtube_video_id |-> None,
     youtube_url |-> None, youtube_uploaded_at |-> None]

Fields == RequiredFields \cup DOMAIN Defaults

\* the names hasattr finds on a Session besides its fields: its methods
\* (the names every object has, such as __class__, are not drawn)
Methods == {"to_dict", "from_dict"}

\* the statuses the comment on Session.status lists
DocumentedStatuses ==
    {"lyrics_generated", "music_uploaded", "video_generated",
     "youtube_uploaded"}

\* bool(x) for a str or None
Truthy(x) == x # None /\ x # ""

\* now.strftime("%Y%m%d_%H%M%S") within the first minute of 2025
SessionId(t) ==
    <<"2", "0", "2", "5", "0", "1", "0", "1", "_", "0", "0", "0", "0">>
        \o ZeroPad(Digits(t), 2)

\* now.isoformat() of a reading on the whole second
IsoFormat(t) ==
    <<"2", "0", "2", "5", "-", "0", "1", "-", "0", "1", "T", "0", "0", ":",
      "0", "0", ":">> \o ZeroPad(Digits(t), 2)

\* the characters of a session id, least first
CharOrder == <<"0", "1", "2", "3", "4", "5", "6", "7", "8", "9", "_">>

Ord(c) == CHOOSE i \in 1..Len(CharOrder) : CharOrder[i] = c

\* a < b for two texts, as str and Path compare
RECURSIVE LexLess(_, _)
LexLess(a, b) ==
    IF b = <<>> THEN FALSE
    ELSE IF a = <<>> THEN TRUE
    ELSE IF Head(a) = Head(b) THEN LexLess(Tail(a), Tail(b))
    ELSE Ord(Head(a)) < Ord(Head(b))

\* sorted(names, reverse=True)
RECURSIVE SortedReverse(_)
SortedReverse(names) ==
    IF names = {} THEN <<>>
    ELSE LET top == CHOOSE n \in names :
                        \A o \in names \ {n} : LexLess(o, n)
         IN  <<top>> \o SortedReverse(names \ {top})

Absent == [kind |-> "absent", data |-> <<>>]

\* metadata_path.exists()
HasMetadata(entry) == entry.kind \in {"text", "json"}

\* Session.from_dict(data), cls(**data): the exception it raises, "" if none
FromDictRaises(data) ==
    IF DOMAIN data \subseteq Fields /\ RequiredFields \subseteq DOMAIN data
    THEN "" ELSE "TypeError"

\* Session.from_dict(data) when it does not raise
FromDict(data) ==
    [f \in Fields |-> IF f \in DOMAIN data THEN data[f] ELSE Defaults[f]]

\* load_session(session_id): the exception it raises, "" when it returns
LoadRaises(bd, id) ==
    IF ~HasMetadata(bd[id]) THEN "FileNotFoundError"
    ELSE IF bd[id].kind = "text" THEN "JSONDecodeError"
    ELSE FromDictRaises(bd[id].data)

\* load_session(session_id) when it returns
LoadSession(bd, id) == FromDict(bd[id].data)

\* _save_metadata(session) for a session whose directory exists
SaveMetadata(bd, s) ==
    [bd EXCEPT ![s["session_id"]] = [kind |-> "json", data |-> s]]

\* _save_metadata(session) when session.to_dict cannot be called: open(...,
\* 'w') has emptied the file when the argument of json.dump raises
SaveMetadataFails(bd, s) ==
    [bd EXCEPT ![s["session_id"]] = [kind |-> "text", data |-> <<>>]]

\* update_session(session_id, status, **kwargs): the session after the
\* status and the keyword arguments hasattr accepts are set on what was loaded
Updated(bd, id, status, kwargs) ==
    LET loaded == LoadSession(bd, id)
        named == IF Truthy(status) THEN [loaded EXCEPT !["status"] = status]
                 ELSE loaded
    IN  [f \in Fields |-> IF f \in DOMAIN kwargs THEN kwargs[f] ELSE named[f]]

\* update_session: the exception it raises, "" when it returns; a keyword
\* argument named like a method hides the method, to_dict among them
UpdateRaises(bd, id, kwargs) ==
    IF LoadRaises(bd, id) # "" THEN LoadRaises(bd, id)
    ELSE IF "to_dict" \in DOMAIN kwargs \cap Methods THEN "TypeError"
    ELSE ""

\* update_session: base_dir after the call
UpdateStore(bd, id, status, kwargs) ==
    IF LoadRaises(bd, id) # "" THEN bd
    ELSE IF UpdateRaises(bd, id, kwargs) # ""
    THEN SaveMetadataFails(bd, Updated(bd, id, status, kwargs))
    ELSE SaveMetadata(bd, Updated(bd, id, status, kwargs))

\* bool(limit) for an int or None, None being <<>> and n being <<n>>
LimitSet(limit) == limit # <<>> /\ limit[1] # 0

\* the loop of list_sessions over the sorted names
RECURSIVE ListFrom(_, _, _, _, _)
ListFrom(bd, names, status, limit, sessions) ==
    IF names = <<>> THEN sessions
    ELSE LET name == Head(names)
             rest == Tail(names)
         IN  IF bd[name].kind \notin {"dir", "text", "json"}
             THEN ListFrom(bd, rest, status, limit, sessions)
             ELSE IF ~HasMetadata(bd[name])
             THEN ListFrom(bd, rest, status, limit, sessions)
             ELSE IF LoadRaises(bd, name) # ""
             THEN ListFrom(bd, rest, status, limit, sessions)
             ELSE IF Truthy(status) /\ LoadSession(bd, name)["status"] # status
             THEN ListFrom(bd, rest, status, limit, sessions)
             ELSE LET found == Append(sessions, LoadSession(bd, name))
                  IN  IF LimitSet(limit) /\ Len(found) >= limit[1]
                      THEN found
                      ELSE ListFrom(bd, rest, status, limit, found)

\* base_dir.iterdir(): the names that exist
IterDir(bd) == { n \in DOMAIN bd : bd[n].kind # "absent" }

\* the seconds at which a session is created
SessionSeconds == {9, 10, 11}

SessionNames == { SessionId(t) : t \in SessionSeconds }

\* a metadata.json another version wrote: a key Session does not have
ForeignData ==
    [session_id |-> SessionId(9), created_at |-> IsoFormat(9),
     status |-> "lyrics_generated", news_title |-> "title",
     news_source |-> "source", news_date |-> "date",
     youtube_shorts_info_file |-> "youtube_shorts_info.json"]

\* what the oldest name is when the manager starts
ForeignEntries ==
    {Absent, [kind |-> "file", data |-> <<>>], [kind |-> "dir", data |-> <<>>],
     [kind |-> "text", data |-> <<>>], [kind |-> "json", data |-> ForeignData]}

StatusInputs == {None, "", "lyrics_generated"}

\* the status filters of list_sessions
FilterInputs == {None, "", "created"}

KwargsInputs ==
    {<<>>, [music_file |-> "music.mp3"],
     [youtube_shorts_info_file |-> "youtube_shorts_info.json"],
     [to_dict |-> "text"]}

LimitInputs == {<<>>, <<0>>, <<1>>, <<2>>}

NoCallYet ==
    [op |-> "", session_id |-> <<>>, status |-> None, kwargs |-> <<>>,
     limit |-> <<>>]

\* A SessionManager over a directory that holds at most one name.
SessionInit ==
    /\ \E e \in ForeignEntries :
          base_dir = [n \in SessionNames |->
                         IF n = SessionId(9) THEN e ELSE Absent]
    /\ before = base_dir
    /\ call = NoCallYet
    /\ session = <<>> /\ writes = <<>>
    /\ pc = "sessions"
    /\ result = <<>>
    /\ error = ""
    /\ duration = FZero
    /\ NoSubtitles /\ NoVideo /\ NoClient

\* what a call of SessionManager leaves alone
sessionFrame ==
    <<session, writes, duration, subtitleVars, media, max_duration, num_parts,
      part, commands, generated_videos, clientVars>>

\* create_session(news_title, news_source, news_date) at the second t
CreateSession(t) ==
    LET id == SessionId(t)
        made == [f \in Fields |->
                    IF f = "session_id" THEN id
                    ELSE IF f = "created_at" THEN IsoFormat(t)
                    ELSE IF f = "status" THEN "created"
                    ELSE IF f = "news_title" THEN "title"
                    ELSE IF f = "news_source" THEN "source"
                    ELSE IF f = "news_date" THEN "date"
                    ELSE Defaults[f]]
    IN  /\ before' = base_dir
        /\ call' = [NoCallYet EXCEPT !.op = "create_session"]
        /\ IF base_dir[id].kind = "file"
           THEN /\ error' = "FileExistsError"
                /\ pc' = "raised"
                /\ result' = <<>>
                /\ UNCHANGED base_dir
           ELSE /\ base_dir' = SaveMetadata(base_dir, made)
                /\ result' = <<made>>
                /\ pc' = "returned"
                /\ error' = ""
        /\ UNCHANGED sessionFrame

\* update_session(session_id, status, **kwargs), a call from outside
UpdateSession(id, status, kwargs) ==
    /\ before' = base_dir
    /\ call' = [op |-> "update_session", session_id |-> id,
                status |-> status, kwargs |-> kwargs, limit |-> <<>>]
    /\ base_dir' = UpdateStore(base_dir, id, status, kwargs)
    /\ error' = UpdateRaises(base_dir, id, kwargs)
    /\ IF UpdateRaises(base_dir, id, kwargs) # ""
       THEN pc' = "raised" /\ result' = <<>>
       ELSE pc' = "returned" /\ result' = <<Updated(base_dir, id, status, kwargs)>>
    /\ UNCHANGED sessionFrame

\* list_sessions(status, limit)
ListSessions(status, limit) ==
    /\ before' = base_dir
    /\ call' = [op |-> "list_sessions", session_id |-> <<>>,
                status |-> status, kwargs |-> <<>>, limit |-> limit]
    /\ result' = ListFrom(base_dir, SortedReverse(IterDir(base_dir)), status,
                          limit, <<>>)
    /\ pc' = "returned"
    /\ error' = ""
    /\ UNCHANGED <<base_dir, sessionFrame>>

SessionNext ==
    \/ \E t \in SessionSeconds : CreateSession(t)
    \/ \E id \in SessionNames, status \in StatusInputs, kwargs \in KwargsInputs :
          UpdateSession(id, status, kwargs)
    \/ \E status \in FilterInputs, limit \in LimitInputs :
          ListSessions(status, limit)

SessionSpec == SessionInit /\ [][SessionNext]_vars

\* the sessions whose metadata loads
Persisted == { n \in DOMAIN base_dir : HasMetadata(base_dir[n]) /\ LoadRaises(base_dir, n) = "" }

\* C22: the persisted status of a session is always one of lyrics_generated,
\* music_uploaded, video_generated, youtube_uploaded, in every state reached
\* through create_session and update_session (the calls the part1 and part2
\* scripts make).
C22_StatusDocumented ==
    \A n \in Persisted :
        LoadSession(base_dir, n)["status"] \in DocumentedStatuses

\* C25: list_sessions(status, limit) returns sessions newest first
\* (descending session id), only sessions whose status equals the filter when
\* one is given, at most limit sessions when a limit is given, and it skips a
\* session whose metadata cannot be loaded without raising.
C25_ListedNewestFirst ==
    call.op = "list_sessions" =>
        /\ pc = "returned" /\ error = ""
        /\ \A i \in 1..(Len(result) - 1) :
              LexLess(result[i + 1]["session_id"], result[i]["session_id"])
        /\ call.status # None =>
              \A i \in 1..Len(result) : result[i]["status"] = call.status
        /\ call.limit # <<>> => Len(result) <= call.limit[1]
        /\ \A i \in 1..Len(result) :
              /\ HasMetadata(base_dir[result[i]["session_id"]])
              /\ LoadRaises(base_dir, result[i]["session_id"]) = ""

\* C29: update_session changes in the persisted metadata only the status, and
\* only when a non-empty status is passed, and the keyword arguments that
\* name fields of Session; a keyword argument that names no field is ignored
\* without an exception, every other field (session_id and created_at
\* included) and every other session stays as it was; for a session without
\* metadata it raises FileNotFoundError and creates no metadata file.
C29_OnlyNamedFieldsChange ==
    call.op = "update_session" =>
        LET id == call.session_id
        IN  IF ~HasMetadata(before[id])
            THEN /\ error = "FileNotFoundError"
                 /\ base_dir = before
            ELSE LoadRaises(before, id) = "" =>
                    /\ error = ""
                    /\ \A n \in DOMAIN before \ {id} : base_dir[n] = before[n]
                    /\ base_dir[id].kind = "json"
                    /\ DOMAIN base_dir[id].data = Fields
                    /\ \A f \in Fields :
                          base_dir[id].data[f] =
                              IF f = "status" /\ Truthy(call.status)
                              THEN call.status
                              ELSE IF f \in DOMAIN call.kwargs
                              THEN call.kwargs[f]
                              ELSE LoadSession(before, id)[f]

(***************************************************************************)
(* part2_upload_video.py, main: one run for the session created at second  *)
(* 9.  media says whether music.mp3 (audio) and thumbnail.jpg (image)      *)
(* exist and what ffprobe makes of the music; writes lists the calls of    *)
(* update_session the run has made; before is base_dir as the run found    *)
(* it.  The run ends at pc "done" or, after sys.exit(1), at the pc         *)
(* "exit_load", "exit_music", "exit_data", "exit_video" or "exit_upload"   *)
(* that names the step that failed.  YouTubeUploader (youtube_uploader.py) *)
(* has the methods authenticate, upload and get_channel_info and no        *)
(* upload_shorts, so the call of uploader.upload_shorts in the shorts step *)
(* raises AttributeError, which the step's except Exception catches: the   *)
(* update_session(status="shorts_uploaded") behind it is never reached.    *)
(***************************************************************************)
Part2Session == SessionId(9)

\* a variant that marks the music as uploaded whatever the status was
NeedsMusicUpdateAlways(s) == TRUE
\* if session.status == "lyrics_generated"
NeedsMusicUpdate(s) == s["status"] = "lyrics_generated"

\* the keyword arguments of the update after the upload: result['video_id']
\* is response['id'], result['url'] the watch address made from it
UploadedKwargs(video_id) ==
    [youtube_info_file |-> "youtube_info.json", youtube_video_id |-> video_id,
     youtube_url |-> "https://www.youtube.com/watch?v=" \o video_id]

\* the statuses a session may have when part2 starts
LoadedStatusInputs ==
    {"created", "lyrics_generated", "music_uploaded", "youtube_uploaded"}

\* a session as create_session and update_session leave it
StoredSession(status) ==
    [f \in Fields |->
        IF f = "session_id" THEN Part2Session
        ELSE IF f = "created_at" THEN IsoFormat(9)
        ELSE IF f = "status" THEN status
        ELSE IF f = "news_title" THEN "title"
        ELSE IF f = "news_source" THEN "source"
        ELSE IF f = "news_date" THEN "date"
        ELSE Defaults[f]]

Part2Entries ==
    {Absent, [kind |-> "text", data |-> <<>>]}
        \cup { [kind |-> "json", data |-> StoredSession(st)] :
                  st \in LoadedStatusInputs }

\* response['id'] of an upload
VideoIdInputs == {"dQw4w9WgXcQ"}

\* python scripts/part2_upload_video.py <session_id>
Part2Init ==
    /\ \E e \in Part2Entries :
          base_dir = [n \in SessionNames |->
                         IF n = Part2Session THEN e ELSE Absent]
    /\ before = base_dir
    /\ call = NoCallYet
    /\ session = <<>> /\ writes = <<>>
    /\ media \in { md \in MediaInputs : ~md.image }
    /\ pc = "part2"
    /\ result = <<>>
    /\ error = ""
    /\ duration = FZero
    /\ max_duration = 0 /\ num_parts = 0 /\ part = 0
    /\ commands = <<>> /\ generated_videos = <<>>
    /\ NoSubtitles /\ NoClient

\* what a step of part2 leaves alone besides what it names
part2Frame ==
    <<before, call, result, max_duration, num_parts, part, commands,
      subtitleVars, clientVars>>

\* session = session_manager.update_session(session_id, status, **kwargs)
\* where the session loads and no keyword argument is named like a method
Part2Update(status, kwargs) ==
    /\ base_dir' = UpdateStore(base_dir, Part2Session, status, kwargs)
    /\ session' = Updated(base_dir, Part2Session, status, kwargs)
    /\ writes' = Append(writes, [status |-> status, kwargs |-> kwargs])

\* step 1: load the session, look for music.mp3, mark the music as uploaded,
\* load structured_news.json
Part2Load ==
    /\ pc = "part2"
    /\ IF LoadRaises(base_dir, Part2Session) # ""
       THEN /\ error' = LoadRaises(base_dir, Part2Session)
            /\ pc' = "exit_load"
            /\ UNCHANGED <<base_dir, session, writes>>
       ELSE IF ~media.audio
       THEN /\ pc' = "exit_music"
            /\ session' = LoadSession(base_dir, Part2Session)
            /\ UNCHANGED <<base_dir, writes, error>>
       ELSE /\ IF NeedsMusicUpdate(LoadSession(base_dir, Part2Session))
               THEN Part2Update("music_uploaded", [music_file |-> "music.mp3"])
               ELSE /\ session' = LoadSession(base_dir, Part2Session)
                    /\ UNCHANGED <<base_dir, writes>>
            /\ \E loaded \in BOOLEAN :
                  IF loaded THEN pc' = "thumbnail" /\ UNCHANGED error
                  ELSE pc' = "exit_data" /\ error' = "Exception"
    /\ UNCHANGED <<media, duration, generated_videos, part2Frame>>

\* step 2: the thumbnail; a failure is logged and leaves no thumbnail
Part2Thumbnail ==
    /\ pc = "thumbnail"
    /\ \E made \in BOOLEAN :
          IF made
          THEN /\ media' = [media EXCEPT !.image = TRUE]
               /\ Part2Update(None, [thumbnail_file |-> "thumbnail.jpg"])
          ELSE UNCHANGED <<media, base_dir, session, writes>>
    /\ pc' = "video"
    /\ UNCHANGED <<error, duration, generated_videos, part2Frame>>

\* step 3: the video; without a thumbnail, or when generate_video raises,
\* sys.exit(1)
Part2Video ==
    /\ pc = "video"
    /\ \E made \in BOOLEAN :
          IF media.image /\ made
          THEN /\ Part2Update("video_generated", [video_file |-> "video.mp4"])
               /\ pc' = "upload"
          ELSE /\ pc' = "exit_video"
               /\ UNCHANGED <<base_dir, session, writes>>
    /\ UNCHANGED <<error, media, duration, generated_videos, part2Frame>>

\* step 4: the upload; authenticate() false, upload() None or an exception
\* end the run with sys.exit(1)
Part2Upload ==
    /\ pc = "upload"
    /\ \/ \E video_id \in VideoIdInputs :
             /\ Part2Update("youtube_uploaded", UploadedKwargs(video_id))
             /\ pc' = "shorts"
       \/ /\ pc' = "exit_upload"
          /\ UNCHANGED <<base_dir, session, writes>>
    /\ UNCHANGED <<error, media, duration, generated_videos, part2Frame>>

\* step 5: the shorts; get_audio_duration or generate_shorts may raise, and
\* after them uploader.upload_shorts raises AttributeError: every exception
\* is logged and the run goes on to its end
Part2Shorts ==
    /\ pc = "shorts"
    /\ IF GetAudioDurationRaises(media) # ""
       THEN UNCHANGED <<duration, generated_videos>>
       ELSE /\ duration' = GetAudioDurationValue(media)
            /\ LET m == IF FLt(FFromInt(30), duration') THEN 30 ELSE 60
               IN  \E made \in 0..NumParts(duration', m) :
                      generated_videos' = [i \in 1..made |-> ShortName(i - 1)]
    /\ pc' = "done"
    /\ UNCHANGED <<error, media, base_dir, session, writes, part2Frame>>

Part2Next ==
    \/ Part2Load
    \/ Part2Thumbnail
    \/ Part2Video
    \/ Part2Upload
    \/ Part2Shorts

Part2Spec == Part2Init /\ [][Part2Next]_vars

\* the statuses the run has written, in the order of the writes
RECURSIVE StatusesOf(_)
StatusesOf(ws) ==
    IF ws = <<>> THEN <<>>
    ELSE (IF ws[1].status = None THEN <<>> ELSE <<ws[1].status>>)
             \o StatusesOf(Tail(ws))

StepOrder == <<"video_generated", "youtube_uploaded", "shorts_uploaded">>

\* the first n statuses of StepOrder, after music_uploaded or not
InStepOrder(sts) ==
    \E n \in 0..Len(StepOrder) :
        \/ sts = SubSeq(StepOrder, 1, n)
        \/ sts = <<"music_uploaded">> \o SubSeq(StepOrder, 1, n)

\* C30: within one run of part2 the statuses are written only in the order
\* music_uploaded (only when the loaded status is lyrics_generated),
\* video_generated, youtube_uploaded, shorts_uploaded, each only after its
\* step succeeded: a run that failed in the video step has written neither
\* video_generated nor a later status, one that failed in the upload step
\* neither youtube_uploaded nor shorts_uploaded; and the update that writes
\* youtube_uploaded sets youtube_video_id and youtube_url to values that are
\* not None, in the call and in the persisted metadata.
C30_StatusWritesInOrder ==
    LET sts == StatusesOf(writes)
        wrote(st) == \E i \in 1..Len(sts) : sts[i] = st
    IN  /\ InStepOrder(sts)
        /\ wrote("music_uploaded") =>
              LoadSession(before, Part2Session)["status"] = "lyrics_generated"
        /\ pc \in {"part2", "exit_load", "exit_music"} => writes = <<>>
        /\ pc \in {"thumbnail", "video", "exit_data", "exit_video"} =>
              ~wrote("video_generated")
        /\ pc \in {"upload", "exit_upload"} =>
              wrote("video_generated") /\ ~wrote("youtube_uploaded")
        /\ pc \in {"shorts", "done"} => wrote("youtube_uploaded")
        /\ ~wrote("youtube_uploaded") => ~wrote("shorts_uploaded")
        /\ \A i \in 1..Len(writes) :
              writes[i].status = "youtube_uploaded" =>
                  /\ {"youtube_video_id", "youtube_url"}
                         \subseteq DOMAIN writes[i].kwargs
                  /\ writes[i].kwargs.youtube_video_id # None
                  /\ writes[i].kwargs.youtube_url # None
        /\ wrote("youtube_uploaded") /\ LoadRaises(base_dir, Part2Session) = ""
              =>  /\ LoadSession(base_dir, Part2Session)["youtube_video_id"] # None
                  /\ LoadSession(base_dir, Part2Session)["youtube_url"] # None

C30_ThreeStatusesWritten ==
    /\ pc = "done"
    /\ StatusesOf(writes) =
          <<"music_uploaded", "video_generated", "youtube_uploaded">>
    /\ Len(writes) = 4
    /\ LoadSession(base_dir, Part2Session)["status"] = "youtube_uploaded"
    /\ Len(generated_videos) = 3

(***************************************************************************)
(* SunoAIClient (suno_client.py).  client holds the arguments of the       *)
(* constructor and, in self, the attributes of the instance once it is     *)
(* made (<<>> before); requests lists the HTTP requests sent.  What the    *)
(* service answers to a request is chosen freely.                          *)
(***************************************************************************)

\* api_key: none, empty, a short and a long one
ApiKeyInputs == {None, "", "key", "0123456789abcdef"}

TitleInputs == {"title", "news", ""}

\* the constructor's `if not dev_mode and not api_key`
FallsBackToDevMode(api_key, dev_mode) == ~dev_mode /\ ~Truthy(api_key)

\* the constructor's `if not dev_mode`, on the argument: the log line slices
\* api_key, which raises TypeError for None
ConstructRaises(api_key, dev_mode) ==
    IF ~dev_mode /\ api_key = None THEN "TypeError" ELSE ""

\* _generate_music_mock: the result
MockResult(title) ==
    [success |-> TRUE, error |-> "", title |-> title,
     audio_url |-> "https://example.com/mock_audio.mp3", dev_mode |-> TRUE]

\* the status codes _generate_music_api answers with an error of its own
ErrorOfStatus ==
    [s400 |-> "Bad request", s401 |-> "Invalid API key",
     s402 |-> "Insufficient credits", s404 |-> "Endpoint not found",
     s405 |-> "Method not allowed", s429 |-> "Rate limit exceeded",
     s500 |-> "Server error"]

\* how a POST to /v1/music/generate may go
PostOutcomes ==
    DOMAIN ErrorOfStatus
        \cup {"ImportError", "ConnectionError", "Timeout", "s403", "clip",
              "no_id", "pending"}

\* how the GET of /api/get may go: a clip that is completed, none, an error
GetOutcomes == {"completed", "not_found", "raises"}

\* the requests of a call of _generate_music_api
ApiRequests(post, get) ==
    IF post = "ImportError" THEN <<>>
    ELSE IF post = "pending" THEN <<"POST /v1/music/generate", "GET /api/get">>
    ELSE <<"POST /v1/music/generate">>

\* _generate_music_api: the result
ApiResult(title, post, get) ==
    LET failed(text) ==
            [success |-> FALSE, error |-> text, title |-> title,
             audio_url |-> None, dev_mode |-> FALSE]
    IN  IF post \in DOMAIN ErrorOfStatus THEN failed(ErrorOfStatus[post])
        ELSE IF post = "ImportError" THEN failed("requests library not installed")
        ELSE IF post = "ConnectionError" THEN failed("Connection error")
        ELSE IF post = "Timeout" THEN failed("Request timeout")
        ELSE IF post = "s403" THEN failed("403 Client Error")
        ELSE IF post = "no_id" THEN failed("No generation ID returned")
        ELSE [success |-> TRUE, error |-> "", title |-> title,
              audio_url |-> IF post = "clip" \/ get = "completed"
                            THEN "https://cdn/clip.mp3" ELSE None,
              dev_mode |-> FALSE]

\* SunoAIClient(api_key, dev_mode) is about to be called
ClientInit ==
    /\ client \in [api_key : ApiKeyInputs, dev_mode : BOOLEAN, self : {<<>>}]
    /\ requests = <<>>
    /\ pc = "construct"
    /\ result = <<>>
    /\ error = ""
    /\ duration = FZero
    /\ NoSubtitles /\ NoVideo /\ NoSessions

\* what a call on the client leaves alone
clientFrame ==
    <<duration, subtitleVars, media, max_duration, num_parts, part, commands,
      generated_videos, sessionVars>>

\* __init__
Construct ==
    /\ pc = "construct"
    /\ IF ConstructRaises(client.api_key, client.dev_mode) # ""
       THEN /\ error' = ConstructRaises(client.api_key, client.dev_mode)
            /\ pc' = "raised"
            /\ UNCHANGED client
       ELSE /\ client' =
                  [client EXCEPT !.self =
                      <<[api_key |-> client.api_key,
                         dev_mode |-> client.dev_mode
                             \/ FallsBackToDevMode(client.api_key,
                                                   client.dev_mode)]>>]
            /\ pc' = "client"
            /\ UNCHANGED error
    /\ UNCHANGED <<requests, result, clientFrame>>

\* generate_music(lyrics, prompt, title)
GenerateMusic(title) ==
    /\ pc = "client"
    /\ IF client.self[1].dev_mode
       THEN /\ result' = <<MockResult(title)>>
            /\ UNCHANGED requests
       ELSE \E post \in PostOutcomes, get \in GetOutcomes :
               /\ post # "pending" => get = "completed"
               /\ result' = <<ApiResult(title, post, get)>>
               /\ requests' = requests \o ApiRequests(post, get)
    /\ pc' = "generated"
    /\ UNCHANGED <<client, error, clientFrame>>

\* get_generation_status(generation_id)
GetGenerationStatus ==
    /\ pc \in {"client", "generated"}
    /\ IF client.self[1].dev_mode
       THEN /\ result' = <<[success |-> TRUE, error |-> "", title |-> "",
                            audio_url |-> "https://example.com/mock_audio.mp3",
                            dev_mode |-> TRUE]>>
            /\ UNCHANGED requests
       ELSE \E get \in GetOutcomes :
               /\ result' =
                     <<[success |-> get = "completed",
                        error |-> IF get = "completed" THEN ""
                                  ELSE IF get = "not_found" THEN "Clip not found"
                                  ELSE "Exception",
                        title |-> "",
                        audio_url |-> IF get = "completed"
                                      THEN "https://cdn/clip.mp3" ELSE None,
                        dev_mode |-> FALSE]>>
               /\ requests' = Append(requests, "GET /api/get")
    /\ pc' = "status"
    /\ UNCHANGED <<client, error, clientFrame>>

ClientNext ==
    \/ Construct
    \/ \E title \in TitleInputs : GenerateMusic(title)
    \/ GetGenerationStatus

ClientSpec == ClientInit /\ [][ClientNext]_vars

\* C24: constructing SunoAIClient with dev_mode=False and no API key succeeds
\* and yields a client in dev mode: generate_music takes the mock path and no
\* network request is made.
C24_NoKeyFallsBackToMock ==
    ~client.dev_mode /\ ~Truthy(client.api_key) =>
        /\ pc # "raised"
        /\ pc # "construct" => client.self # <<>> /\ client.self[1].dev_mode
        /\ pc = "generated" => result[1].dev_mode
        /\ requests = <<>>
====
